---- MODULE Spec2Model ----
(***************************************************************************)
(* Model of cachistry, a caching reverse proxy for container registries.   *)
(*                                                                         *)
(*   SpecFiles  the recency index (cache/files.go: a doubly linked list    *)
(*              plus a map by path), driven by arbitrary calls of          *)
(*              InsertOrReplace, Delete and Range.                         *)
(*   Spec       the cache (cache/cache.go): NewCache, Get, Create, Store   *)
(*              and the eviction Store runs, one call at a time.           *)
(*   SpecProxy  the GET /v2/{registry}/{path...} handler (main.go), one    *)
(*              step per upstream interaction.                             *)
(*   SpecObjects  Create, the writes to the handle, Store and Get with the *)
(*              attributes and the bytes of each object.                   *)
(*   SpecConc   two handlers fetching and publishing at the same time,     *)
(*              one read or write of shared state per step.                *)
(*   SpecServe  SpecConc with a request served from the cache meanwhile.   *)
(*   SpecTouch  Cache.UpdateValidated on the objects an earlier run left.  *)
(*   SpecPath   Cache.absoluteInRoot on the paths a request can carry.     *)
(*   SpecOpen   NewCache on the directories it can be opened on.           *)
(***************************************************************************)
EXTENDS Integers, Sequences, FiniteSets, TLC

VARIABLES
    files,      \* Cache.files / l: the recency index [nodes, head, tail]
    touched,    \* history: the live entries, least recently inserted-or-replaced first
    lastCall,   \* the last call made and what it returned
    disk,       \* the regular files under the cache root outside -/tmp: path -> size
    tmp,        \* the files under -/tmp (the open handles Create returned)
    usedBytes,  \* Cache.usedBytes
    usedAtOpen, \* history: usedBytes when NewCache returned
    stores,     \* history: the number of Store calls made
    store,      \* proxy: the files under the cache root with their attributes
    now,        \* proxy: the wall clock, in ticks
    h           \* proxy: the request the handler is serving and how far it got

cacheVars == <<disk, tmp, usedBytes, usedAtOpen, stores>>

proxyVars == <<store, now, h>>

vars == <<files, touched, lastCall, disk, tmp, usedBytes, usedAtOpen, stores,
          store, now, h>>

----------------------------------------------------------------------------
(* Bounds of the model *)

\* sizes of the files given to the recency index are 1..MaxFileSize
MaxFileSize == 2

\* Cache.maxBytes, scaled: one unit stands for 100 bytes of the spec's examples
MaxBytes == 10

\* the width of the model's unsigned counter; it stands for the 64 of uint64 and
\* is far above every sum of sizes the model reaches
UintBits == 6

Paths == {"a", "b", "c"}

\* the model follows the cache through at most MaxStores calls of Store
MaxStores == 3

\* the proxy's clock runs from 0 to MaxTime ticks
MaxTime == 4

\* ticks per second: RFC 3339 timestamps keep whole seconds only
TicksPerSecond == 2

\* cfg.UnconditionalCacheTime, in ticks (scaled from 5 minutes)
UnconditionalCacheTime == 2

\* the names rand.Uint64() gives the temporary files
TempNames == {"-/tmp/1"}

\* the sizes of the objects published: two of the first fit the quota and a
\* third does not (the 400 of the spec's eviction example); the second is
\* above the quota on its own
Sizes == {4, MaxBytes + 1}

----------------------------------------------------------------------------
(* The recency index: type files, type node, type file *)

\* a nil *node
NIL == "nil"

\* file{}: the zero value InsertOrReplace returns when nothing was replaced
ZeroFile == [path |-> "", size |-> 0]

\* newFiles(): an empty map and nil head and tail.  A node is named by the
\* path it is stored under in byPath; DOMAIN nodes is the key set of byPath.
newFiles == [nodes |-> <<>>, head |-> NIL, tail |-> NIL]

\* files.insertFront(n)
insertFront(l, n) ==
    LET l1 == [l EXCEPT !.nodes[n].prev = NIL, !.nodes[n].next = l.head]
        l2 == IF l.head # NIL
              THEN [l1 EXCEPT !.nodes[l.head].prev = n]
              ELSE [l1 EXCEPT !.tail = n]
    IN  [l2 EXCEPT !.head = n]

\* files.unlink(n)
unlink(l, n) ==
    LET nd == l.nodes[n]
        l1 == IF nd.prev # NIL
              THEN [l EXCEPT !.nodes[nd.prev].next = nd.next]
              ELSE IF l.head = n THEN [l EXCEPT !.head = nd.next] ELSE l
        l2 == IF nd.next # NIL
              THEN [l1 EXCEPT !.nodes[nd.next].prev = nd.prev]
              ELSE IF l1.tail = n THEN [l1 EXCEPT !.tail = nd.prev] ELSE l1
    IN  [l2 EXCEPT !.nodes[n].prev = NIL, !.nodes[n].next = NIL]

\* InsertOrReplace without the promotion: the payload is replaced in place
InsertOrReplaceInPlace(l, f) ==
    IF f.path \in DOMAIN l.nodes
    THEN [l        |-> [l EXCEPT !.nodes[f.path].f = f],
          old      |-> l.nodes[f.path].f,
          replaced |-> TRUE]
    ELSE LET n  == f.path
             l1 == [l EXCEPT !.nodes =
                        (n :> [prev |-> NIL, next |-> NIL, f |-> f]) @@ l.nodes]
         IN  [l        |-> insertFront(l1, n),
              old      |-> ZeroFile,
              replaced |-> FALSE]

\* files.InsertOrReplace(f): returns the new index, old and replaced
InsertOrReplace(l, f) ==
    IF f.path \in DOMAIN l.nodes
    THEN LET n  == f.path
             l1 == [l EXCEPT !.nodes[n].f = f]
         IN  [l        |-> IF n # l.head THEN insertFront(unlink(l1, n), n) ELSE l1,
              old      |-> l.nodes[n].f,
              replaced |-> TRUE]
    ELSE LET n  == f.path
             l1 == [l EXCEPT !.nodes =
                        (n :> [prev |-> NIL, next |-> NIL, f |-> f]) @@ l.nodes]
         IN  [l        |-> insertFront(l1, n),
              old      |-> ZeroFile,
              replaced |-> FALSE]

\* Delete without delete(l.byPath, f.path): the node is unlinked but stays in the map
DeleteKeepsMapEntry(l, f) ==
    IF f.path \notin DOMAIN l.nodes
    THEN [l |-> l, found |-> FALSE]
    ELSE [l |-> unlink(l, f.path), found |-> TRUE]

\* files.Delete(f): returns the new index and whether f.path was found
\* (byPath is never nil: newFiles makes the map)
Delete(l, f) ==
    IF f.path \notin DOMAIN l.nodes
    THEN [l |-> l, found |-> FALSE]
    ELSE LET l1 == unlink(l, f.path)
         IN  [l     |-> [l1 EXCEPT !.nodes =
                            [p \in (DOMAIN l1.nodes) \ {f.path} |-> l1.nodes[p]]],
              found |-> TRUE]

\* the loop of Range without the errRangeDone case: the sentinel is returned
\* to the caller like any other error
RECURSIVE RangeLoopDoneIsError(_, _, _, _, _)
RangeLoopDoneIsError(l, n, fn, visited, fuel) ==
    IF n = NIL \/ fuel = 0
    THEN [visited |-> visited, err |-> "nil"]
    ELSE LET f == l.nodes[n].f
             r == fn[f.path]
         IN  IF r # "nil" THEN [visited |-> Append(visited, f), err |-> r]
             ELSE RangeLoopDoneIsError(l, l.nodes[n].prev, fn, Append(visited, f), fuel - 1)

\* The loop of files.Range: for n := l.tail; n != nil; n = n.prev.  fn gives
\* the callback's answer for each file: "nil", "done" (errRangeDone) or
\* "boom" (any other error).  Returns the files fn was called on, in order,
\* and the error Range returns.  fuel bounds the walk by the number of nodes.
RECURSIVE RangeLoop(_, _, _, _, _)
RangeLoop(l, n, fn, visited, fuel) ==
    IF n = NIL \/ fuel = 0
    THEN [visited |-> visited, err |-> "nil"]
    ELSE LET f == l.nodes[n].f
             r == fn[f.path]
         IN  IF r = "done"  THEN [visited |-> Append(visited, f), err |-> "nil"]
             ELSE IF r # "nil" THEN [visited |-> Append(visited, f), err |-> r]
             ELSE RangeLoop(l, l.nodes[n].prev, fn, Append(visited, f), fuel - 1)

\* Range walking from the head along next: newest first
RECURSIVE RangeLoopNext(_, _, _, _, _)
RangeLoopNext(l, n, fn, visited, fuel) ==
    IF n = NIL \/ fuel = 0
    THEN [visited |-> visited, err |-> "nil"]
    ELSE LET f == l.nodes[n].f
             r == fn[f.path]
         IN  IF r = "done"  THEN [visited |-> Append(visited, f), err |-> "nil"]
             ELSE IF r # "nil" THEN [visited |-> Append(visited, f), err |-> r]
             ELSE RangeLoopNext(l, l.nodes[n].next, fn, Append(visited, f), fuel - 1)

RangeNewestFirst(l, fn) ==
    RangeLoopNext(l, l.head, fn, <<>>, Cardinality(DOMAIN l.nodes) + 1)

\* files.Range(fn)
Range(l, fn) == RangeLoop(l, l.tail, fn, <<>>, Cardinality(DOMAIN l.nodes) + 1)

\* the callback that never stops the traversal
fnNil == [p \in Paths |-> "nil"]

----------------------------------------------------------------------------
(* SpecFiles: the calls of TestFiles_HappyPath, in any order *)

FileInputs == [path : Paths, size : 1..MaxFileSize]

Callbacks == [Paths -> {"nil", "done", "boom"}]

\* s without the entries of path p
RECURSIVE Without(_, _)
Without(s, p) ==
    IF s = <<>> THEN <<>>
    ELSE IF Head(s).path = p THEN Without(Tail(s), p)
    ELSE <<Head(s)>> \o Without(Tail(s), p)

InitFiles ==
    /\ files = newFiles
    /\ touched = <<>>
    /\ lastCall = [op |-> "newFiles"]
    /\ disk = <<>>
    /\ tmp = {}
    /\ usedBytes = 0
    /\ usedAtOpen = 0
    /\ stores = 0
    /\ store = <<>>
    /\ now = 0
    /\ h = [pc |-> "idle"]

CallInsertOrReplace(f) ==
    LET r == InsertOrReplace(files, f)
    IN  /\ files' = r.l
        /\ touched' = Append(Without(touched, f.path), f)
        /\ lastCall' = [op |-> "InsertOrReplace", f |-> f,
                        old |-> r.old, replaced |-> r.replaced]
        /\ UNCHANGED <<cacheVars, proxyVars>>

CallDelete(f) ==
    LET r == Delete(files, f)
    IN  /\ files' = r.l
        /\ touched' = Without(touched, f.path)
        /\ lastCall' = [op |-> "Delete", f |-> f, found |-> r.found]
        /\ UNCHANGED <<cacheVars, proxyVars>>

CallRange(fn) ==
    LET r == Range(files, fn)
    IN  /\ files' = files
        /\ touched' = touched
        /\ lastCall' = [op |-> "Range", fn |-> fn,
                        visited |-> r.visited, err |-> r.err]
        /\ UNCHANGED <<cacheVars, proxyVars>>

NextFiles ==
    \/ \E f \in FileInputs : CallInsertOrReplace(f)
    \/ \E f \in FileInputs : CallDelete(f)
    \/ \E fn \in Callbacks : CallRange(fn)

SpecFiles == InitFiles /\ [][NextFiles]_vars

----------------------------------------------------------------------------
(* Properties of the recency index, under SpecFiles *)

\* what an uninterrupted Range visits, oldest first
RangeAll(l) == Range(l, fnNil).visited

PathsOf(s) == {s[i].path : i \in 1..Len(s)}

\* the position of path p in s, 0 when absent
PosOf(s, p) == IF p \in PathsOf(s) THEN CHOOSE i \in 1..Len(s) : s[i].path = p ELSE 0

\* C7: after any sequence of InsertOrReplace and Delete, a Range that is not
\* stopped early returns no error and visits the live entries, each exactly
\* once and no deleted one, from the least recently inserted-or-replaced to
\* the most recently inserted-or-replaced.
C7_RangeVisitsLiveOldestFirst ==
    LET r == Range(files, fnNil)
    IN  /\ r.err = "nil"
        /\ r.visited = touched
        /\ Cardinality(PathsOf(r.visited)) = Len(r.visited)
        /\ (lastCall.op = "Range" /\ lastCall.fn = fnNil => lastCall.visited = touched)

\* a full Range after a replacement and a deletion: three inserted, the oldest
\* replaced (now newest), the middle one deleted
C7_Witness ==
    /\ lastCall.op = "Range"
    /\ lastCall.fn = fnNil
    /\ Len(lastCall.visited) = 2
    /\ lastCall.visited[1].path = "c"
    /\ lastCall.visited[2].path = "a"

\* C8: InsertOrReplace(f) on a present path returns the stored entry and
\* replaced = TRUE, stores f, and makes it the newest, the others keeping
\* their order; on an absent path it returns the zero entry and replaced =
\* FALSE and f becomes the newest; the count grows by one only when absent.
C8_InsertOrReplace ==
    [][lastCall'.op = "InsertOrReplace" =>
        LET f      == lastCall'.f
            before == RangeAll(files)
            after  == RangeAll(files')
            i      == PosOf(before, f.path)
        IN  /\ after = Append(Without(before, f.path), f)
            /\ i # 0 => /\ lastCall'.replaced
                        /\ lastCall'.old = before[i]
                        /\ Len(after) = Len(before)
            /\ i = 0 => /\ ~lastCall'.replaced
                        /\ lastCall'.old = ZeroFile
                        /\ Len(after) = Len(before) + 1
      ]_vars

\* the oldest of three entries was replaced with another size and is now newest
C8_Witness ==
    /\ lastCall.op = "InsertOrReplace"
    /\ lastCall.replaced
    /\ lastCall.old.size # lastCall.f.size
    /\ Len(RangeAll(files)) = 3
    /\ RangeAll(files)[3] = lastCall.f
    /\ RangeAll(files)[1].path = "b"
    /\ RangeAll(files)[2].path = "c"

\* C9: Delete(f) returns true exactly when f.path is in the index and then
\* removes that entry only, the others keeping their order, wherever the
\* entry stood; on an absent path it returns false and changes nothing; an
\* index emptied by Delete accepts further InsertOrReplace calls.
C9_Delete ==
    [][/\ lastCall'.op = "Delete" =>
            LET f      == lastCall'.f
                before == RangeAll(files)
                after  == RangeAll(files')
            IN  /\ lastCall'.found = (f.path \in PathsOf(before))
                /\ after = Without(before, f.path)
                /\ ~lastCall'.found => files' = files
       /\ (/\ lastCall.op = "Delete"
           /\ RangeAll(files) = <<>>
           /\ lastCall'.op = "InsertOrReplace") =>
                /\ ~lastCall'.replaced
                /\ RangeAll(files') = <<lastCall'.f>>
      ]_vars

\* the middle one of three entries was deleted
C9_Witness ==
    /\ lastCall.op = "Delete"
    /\ lastCall.found
    /\ lastCall.f.path = "b"
    /\ Len(RangeAll(files)) = 2
    /\ RangeAll(files)[1].path = "a"
    /\ RangeAll(files)[2].path = "c"

\* the first position of s at which callback fn stops the traversal, 0 if none
FirstStop(s, fn) ==
    IF \E i \in 1..Len(s) : fn[s[i].path] # "nil"
    THEN CHOOSE i \in 1..Len(s) :
            /\ fn[s[i].path] # "nil"
            /\ \A j \in 1..(i - 1) : fn[s[j].path] = "nil"
    ELSE 0

\* C10: when fn returns errRangeDone on an entry, Range visits no later entry
\* and returns no error; when fn returns another error, Range visits no later
\* entry and returns that error; either way the index is left as it was.
C10_RangeEarlyStop ==
    [][lastCall'.op = "Range" =>
        LET all == RangeAll(files)
            fn  == lastCall'.fn
            k   == FirstStop(all, fn)
        IN  /\ files' = files
            /\ RangeAll(files') = all
            /\ k = 0 => lastCall'.visited = all /\ lastCall'.err = "nil"
            /\ k # 0 => /\ lastCall'.visited = SubSeq(all, 1, k)
                        /\ lastCall'.err =
                              (IF fn[all[k].path] = "done" THEN "nil" ELSE fn[all[k].path])
      ]_vars

\* a Range over three entries stopped by errRangeDone on the second
C10_Witness ==
    /\ lastCall.op = "Range"
    /\ Len(RangeAll(files)) = 3
    /\ Len(lastCall.visited) = 2
    /\ lastCall.fn[lastCall.visited[2].path] = "done"
    /\ lastCall.err = "nil"

----------------------------------------------------------------------------
(* The cache: type Cache, NewCache, Get, Create, Store, evict *)

\* uint64 arithmetic wraps at 2^64; the model's counter wraps at 2^UintBits
UintMod == 2 ^ UintBits

\* atomic.AddUint64(addr, delta)
atomicAdd(u, delta) == (u + delta) % UintMod

\* atomicSubtract(addr, delta): atomic.AddUint64(addr, ^(delta - 1))
atomicSubtract(u, delta) ==
    LET dm1  == (delta - 1) % UintMod       \* delta - 1, wrapping at delta = 0
        cmpl == UintMod - 1 - dm1           \* ^(delta - 1)
    IN  atomicAdd(u, cmpl)

\* the file tree d without path p
Removed(d, p) == [q \in (DOMAIN d) \ {p} |-> d[q]]

\* the file tree d with a file of size n at path p
Written(d, p, n) == [q \in (DOMAIN d) \cup {p} |-> IF q = p THEN n ELSE d[q]]

RECURSIVE SumOver(_, _)
SumOver(d, ps) ==
    IF ps = {} THEN 0
    ELSE LET p == CHOOSE q \in ps : TRUE IN d[p] + SumOver(d, ps \ {p})

\* the bytes held by the published objects of file tree d
SumSizes(d) == SumOver(d, DOMAIN d)

\* the state an eviction pass starts from: the file tree, the counter and
\* the deficit toEvict; skipped and failedOn are history, the entries whose
\* file was missing and the path whose removal failed
PassStart(d, used, size) ==
    [disk |-> d, used |-> used, toEvict |-> size, skipped |-> {}, failedOn |-> NIL]

\* the callback of evict with the missing file counted as removed
RECURSIVE evictLoopCountsMissing(_, _, _, _, _)
evictLoopCountsMissing(l, n, st, rmErr, fuel) ==
    IF n = NIL \/ fuel = 0
    THEN [st |-> st, err |-> "nil"]
    ELSE LET f == l.nodes[n].f
         IN  IF f.path = rmErr /\ f.path \in DOMAIN st.disk
             THEN [st |-> [st EXCEPT !.failedOn = f.path], err |-> "remove"]
             ELSE LET st1 == [st EXCEPT
                                 !.disk    = IF f.path \in DOMAIN st.disk
                                             THEN Removed(st.disk, f.path) ELSE @,
                                 !.skipped = IF f.path \in DOMAIN st.disk
                                             THEN @ ELSE @ \cup {f.path},
                                 !.used    = atomicSubtract(st.used, f.size),
                                 !.toEvict = st.toEvict - f.size]
                  IN  IF st1.toEvict <= 0
                      THEN [st |-> st1, err |-> "nil"]
                      ELSE evictLoopCountsMissing(l, l.nodes[n].prev, st1, rmErr, fuel - 1)

\* The callback evict passes to files.Range, run by Range's loop from node n.
\* st is as PassStart gives it; rmErr is the path, if any, on which
\* c.root.Remove fails with an error other than fs.ErrNotExist.  Returns st
\* as the loop leaves it, and the error Range returns.
RECURSIVE evictLoop(_, _, _, _, _)
evictLoop(l, n, st, rmErr, fuel) ==
    IF n = NIL \/ fuel = 0
    THEN [st |-> st, err |-> "nil"]
    ELSE LET f == l.nodes[n].f
         IN  IF f.path \notin DOMAIN st.disk
             THEN \* fs.ErrNotExist: return nil, Range goes on
                  evictLoop(l, l.nodes[n].prev,
                            [st EXCEPT !.skipped = @ \cup {f.path}], rmErr, fuel - 1)
             ELSE IF f.path = rmErr
             THEN [st |-> [st EXCEPT !.failedOn = f.path], err |-> "remove"]
             ELSE LET st1 == [st EXCEPT !.disk    = Removed(st.disk, f.path),
                                        !.used    = atomicSubtract(st.used, f.size),
                                        !.toEvict = st.toEvict - f.size]
                  IN  IF st1.toEvict <= 0
                      THEN [st |-> st1, err |-> "nil"]       \* errRangeDone
                      ELSE evictLoop(l, l.nodes[n].prev, st1, rmErr, fuel - 1)

\* evict ranging from the head of the index
evictNewestFirst(l, d, used, size, rmErr) ==
    IF (used + size) % UintMod <= MaxBytes
    THEN [st |-> PassStart(d, used, size), err |-> "nil"]
    ELSE evictLoop(l, l.head, PassStart(d, used, size),
                   rmErr, Cardinality(DOMAIN l.nodes) + 1)

\* Cache.evict(size) on index l, file tree d and counter used
evict(l, d, used, size, rmErr) ==
    IF (used + size) % UintMod <= MaxBytes
    THEN [st |-> PassStart(d, used, size), err |-> "nil"]
    ELSE evictLoop(l, l.tail, PassStart(d, used, size),
                   rmErr, Cardinality(DOMAIN l.nodes) + 1)

\* Cache.Store(f, path, size) after evict succeeded and the rename was done:
\* InsertOrReplace, atomicSubtract of the replaced entry's size, AddUint64
StoreAccount(l, used, path, size) ==
    LET r == InsertOrReplace(l, [path |-> path, size |-> size])
        u == IF r.replaced THEN atomicSubtract(used, r.old.size) ELSE used
    IN  [l |-> r.l, used |-> atomicAdd(u, size)]

\* the directory listings NewCache can find: distinct paths, in the order the
\* sort by access time leaves them, each with its size
RECURSIVE Listings(_)
Listings(ps) ==
    {<<>>} \cup
    UNION {{<<[path |-> p, size |-> n]>> \o s : s \in Listings(ps \ {p})} :
              <<p, n>> \in ps \X Sizes}

\* the loop of NewCache over discoveredFiles: c.files.InsertOrReplace(f.file)
RECURSIVE InsertAll(_, _)
InsertAll(l, s) ==
    IF s = <<>> THEN l ELSE InsertAll(InsertOrReplace(l, Head(s)).l, Tail(s))

\* the file tree a listing was read from
TreeOf(s) == [p \in PathsOf(s) |-> s[PosOf(s, p)].size]

\* NewCache(path, maxSizeBytes): the state it returns, for every directory it
\* can be opened on.  The walk removes what is under -/tmp, adds each other
\* file's size to usedBytes, and the files are inserted oldest access first.
Init ==
    \E s \in Listings(Paths) :
        /\ disk = TreeOf(s)
        /\ tmp = {}
        /\ files = InsertAll(newFiles, s)
        /\ usedBytes = SumSizes(TreeOf(s)) % UintMod
        /\ usedAtOpen = SumSizes(TreeOf(s)) % UintMod
        /\ stores = 0
        /\ store = <<>>
        /\ now = 0
        /\ h = [pc |-> "idle"]
        /\ touched = <<>>
        /\ lastCall = [op |-> "NewCache"]

\* Cache.Get(path): Chtimes touches the access time; a missing file gives nil
CacheGet(path) ==
    /\ lastCall' = [op |-> "Get", path |-> path, found |-> path \in DOMAIN disk]
    /\ UNCHANGED <<files, touched, disk, tmp, usedBytes, usedAtOpen, stores, proxyVars>>

\* Cache.Create(mimeType, eTag): O_CREATE|O_EXCL under -/tmp
CacheCreate(name) ==
    /\ IF name \in tmp
       THEN /\ tmp' = tmp
            /\ lastCall' = [op |-> "Create", f |-> name, err |-> "exist"]
       ELSE /\ tmp' = tmp \cup {name}
            /\ lastCall' = [op |-> "Create", f |-> name, err |-> "nil"]
    /\ UNCHANGED <<files, touched, disk, usedBytes, usedAtOpen, stores, proxyVars>>

\* the TempRemover Create returned: close and remove the temporary file
TempRemover(name) ==
    /\ name \in tmp
    /\ tmp' = tmp \ {name}
    /\ lastCall' = [op |-> "TempRemover", f |-> name]
    /\ UNCHANGED <<files, touched, disk, usedBytes, usedAtOpen, stores, proxyVars>>

\* Cache.Store(f, path, size) on index l, file tree d, temporary files t and
\* counter used, f holding size bytes.  rmErr: see evictLoop; ioErr: MkdirAll,
\* Close or Rename fails.  Returns what Store leaves and the error it returns.
Store(l, d, t, used, f, path, size, rmErr, ioErr) ==
    LET e == evict(l, d, used, size, rmErr)
    IN  IF e.err # "nil"
        THEN [files |-> l, disk |-> e.st.disk, tmp |-> t, used |-> e.st.used,
              err |-> "evict"]
        ELSE IF ioErr
        THEN [files |-> l, disk |-> e.st.disk, tmp |-> t, used |-> e.st.used,
              err |-> "io"]
        ELSE LET a == StoreAccount(l, e.st.used, path, size)
             IN  [files |-> a.l, disk |-> Written(e.st.disk, path, size),
                  tmp |-> t \ {f}, used |-> a.used, err |-> "nil"]

\* a call of Cache.Store(f, path, size)
CacheStore(f, path, size, rmErr, ioErr) ==
    /\ f \in tmp
    /\ stores < MaxStores
    /\ stores' = stores + 1
    /\ LET r == Store(files, disk, tmp, usedBytes, f, path, size, rmErr, ioErr)
       IN  /\ files' = r.files
           /\ disk' = r.disk
           /\ tmp' = r.tmp
           /\ usedBytes' = r.used
           /\ lastCall' = [op |-> "Store", path |-> path, size |-> size,
                           err |-> r.err,
                           \* history: what c.evict(size) returned and left
                           ev |-> LET e == evict(files, disk, usedBytes, size, rmErr)
                                  IN  [err |-> e.err, disk |-> e.st.disk,
                                       used |-> e.st.used,
                                       removed |-> (DOMAIN disk) \ DOMAIN e.st.disk,
                                       skipped |-> e.st.skipped,
                                       failedOn |-> e.st.failedOn]]
    /\ UNCHANGED <<touched, usedAtOpen, proxyVars>>

Next ==
    \/ \E p \in Paths : CacheGet(p)
    \/ \E t \in TempNames : CacheCreate(t)
    \/ \E t \in TempNames : TempRemover(t)
    \/ \E t \in TempNames, p \in Paths, n \in Sizes :
          \/ CacheStore(t, p, n, NIL, FALSE)
          \/ CacheStore(t, p, n, NIL, TRUE)
          \/ \E rmErr \in Paths : CacheStore(t, p, n, rmErr, FALSE)

Spec == Init /\ [][Next]_vars

\* C1: at every quiescent point used_bytes is the sum of the sizes of the
\* published objects present in the store.
C1_UsedBytesIsSumOfSizes == usedBytes = SumSizes(disk)

\* C2: starting from a cache within its quota, after each successful
\* Store(handle, path, size) used_bytes <= max_bytes + size, and the counter
\* has not wrapped below zero.
C2_OvershootAtMostOneObject ==
    (/\ usedAtOpen <= MaxBytes
     /\ lastCall.op = "Store"
     /\ lastCall.err = "nil") => usedBytes <= MaxBytes + lastCall.size

\* C3: a successful Get(k) makes k the most recently used entry for eviction:
\* the eviction of the next Store removes k only after every other published
\* object (none of which was accessed since).  With max_bytes = 1000: publish
\* A (400) and B (400), Get(A), publish C (400); B is evicted, A and C stay.
C3_GetMakesMostRecentlyUsed ==
    [][(/\ lastCall.op = "Get"
        /\ lastCall.found
        /\ lastCall'.op = "Store"
        /\ lastCall'.err = "nil"
        /\ lastCall.path # lastCall'.path
        /\ lastCall.path \notin DOMAIN disk')
            => DOMAIN disk' = {lastCall'.path}
      ]_vars

\* C11: at every quiescent point the paths of the recency index are the
\* published objects of the store, one entry per object and one object per
\* entry, and each entry's size is the size of its object.
C11_IndexIsTheStore ==
    /\ DOMAIN files.nodes = DOMAIN disk
    /\ \A p \in DOMAIN disk : files.nodes[p].f.size = disk[p]

\* C20: after a successful Store of an object larger than maxBytes, from any
\* state of the cache and whether or not its key was already published, every
\* other published object has been evicted and usedBytes is the size of the
\* new object.
C20_OversizeLeavesOnlyItself ==
    (lastCall.op = "Store" /\ lastCall.err = "nil" /\ lastCall.size > MaxBytes) =>
        /\ DOMAIN disk = {lastCall.path}
        /\ disk[lastCall.path] = lastCall.size
        /\ usedBytes = lastCall.size

\* C23: after evict(requested) returned without error, from any state of
\* the cache, usedBytes + requested <= maxBytes or no published object is
\* left in the store.
C23_EvictMakesRoom ==
    (lastCall.op = "Store" /\ lastCall.ev.err = "nil") =>
        \/ lastCall.ev.used + lastCall.size <= MaxBytes
        \/ lastCall.ev.disk = <<>>

\* C24: an eviction pass removes objects in the order of the recency index,
\* oldest first: when it ends, with or without error, every object it removed
\* is older in the index than every object still in the store; and when
\* usedBytes + requested <= maxBytes it removes nothing and leaves usedBytes
\* as it was.  The pass never changes the index: a Store that fails after it
\* leaves the index as it was.
C24_EvictOldestFirst ==
    [][lastCall'.op = "Store" =>
          LET byAge == RangeAll(files)
              ev    == lastCall'.ev
          IN  /\ ev.removed \subseteq DOMAIN files.nodes
              /\ DOMAIN ev.disk \subseteq DOMAIN files.nodes
              /\ \A r \in ev.removed, p \in DOMAIN ev.disk :
                    PosOf(byAge, r) < PosOf(byAge, p)
              /\ (usedBytes + lastCall'.size) % UintMod <= MaxBytes =>
                    ev.removed = {} /\ ev.disk = disk /\ ev.used = usedBytes
              /\ lastCall'.err # "nil" => files' = files
      ]_vars

\* a pass that removed two objects and left a newer one in the store
C24_Witness ==
    /\ lastCall.op = "Store"
    /\ lastCall.ev.err = "nil"
    /\ Cardinality(lastCall.ev.removed) = 2
    /\ lastCall.ev.disk # <<>>

\* the bytes the index holds for the entries ps
IndexedBytes(l, ps) == SumOver([q \in ps |-> l.nodes[q].f.size], ps)

\* C25: an eviction pass that meets index entries whose file is not in the
\* store goes on to the next entry without error: those entries' sizes are
\* neither subtracted from usedBytes nor counted as freed (the pass ends
\* early only on bytes it really removed, or on a removal that failed on a
\* file that was there), and the publication that ran the pass succeeds
\* unless its own file operations fail.
C25_MissingFilesSkipped ==
    [][(lastCall'.op = "Store" /\ lastCall'.ev.skipped # {}) =>
          LET byAge == RangeAll(files)
              ev    == lastCall'.ev
              freed == IndexedBytes(files, ev.removed)
              left  == {q \in DOMAIN ev.disk : \E o \in ev.skipped :
                           PosOf(byAge, o) < PosOf(byAge, q)}
          IN  /\ ev.skipped \cap DOMAIN disk = {}
              /\ ev.used = (usedBytes - freed) % UintMod
              /\ ev.err = "nil" => (left = {} \/ freed >= lastCall'.size)
              /\ ev.err # "nil" => ev.failedOn \in DOMAIN disk
              /\ \A r \in ev.removed :
                    IndexedBytes(files, {q \in ev.removed :
                                            PosOf(byAge, q) < PosOf(byAge, r)})
                        < lastCall'.size
              /\ lastCall'.err = "evict" <=> ev.err # "nil"
              /\ lastCall'.err = "nil" =>
                    /\ lastCall'.path \in DOMAIN disk'
                    /\ disk'[lastCall'.path] = lastCall'.size
      ]_vars

\* a pass that skipped a missing file, removed a file behind it, and whose
\* publication succeeded
C25_Witness ==
    /\ lastCall.op = "Store"
    /\ lastCall.err = "nil"
    /\ lastCall.ev.skipped # {}
    /\ lastCall.ev.removed # {}
    /\ lastCall.ev.disk # <<>>

----------------------------------------------------------------------------
(* The proxy: the handler of GET /v2/{registry}/{path...} *)

\* cfg.Registries
Registries == {"docker.io"}

\* app.regs, as App.setup fills it
regs == [r \in Registries |-> IF r = "docker.io" THEN "registry-1.docker.io" ELSE r]

\* the {registry} and {path...} values of the requests made; old.io is a
\* registry an earlier run was configured with
RequestRegistries == {"docker.io", "old.io"}

RequestPaths == {"x"}

\* the ETag values of the upstream's 200 responses; "" is what
\* resp.Header.Get gives for a header the response does not carry
UpstreamETags == {"", "e1", "e2"}

\* the Content-Type values of the upstream's 200 responses
UpstreamContentTypes == {"", "m"}

\* the Content-Length values of the upstream's 200 responses, as texts:
\* absent (a chunked response), 4, and one that is no number
UpstreamContentLengths == {<<>>, <<"4">>, <<"4", "x">>}

\* filepath.Join(registry, path)
CachePath(registry, path) == <<registry, path>>

\* the names Create can give its temporary file: tmpDir and a random number
TempPaths == {<<"-/tmp", "1">>, <<"-/tmp", "2">>}

\* the timestamp written with its fraction of the second (time.RFC3339Nano)
FormatRFC3339Nano(t) == t

\* time.Now().UTC().Format(time.RFC3339) read back by time.Parse: the
\* fraction of the second is dropped
FormatRFC3339(t) == t - (t % TicksPerSecond)

\* UpdateValidated leaving the attribute as it is
UpdateValidatedNever(st, path, t) ==
    [st EXCEPT ![path].wrote = [by |-> "update", at |-> t]]

\* Cache.UpdateValidated(path) at time t on file tree st.  wrote (history):
\* what last wrote the attribute (an earlier run, Create, UpdateValidated)
\* and, for UpdateValidated, when
UpdateValidated(st, path, t) ==
    [st EXCEPT ![path].validated = FormatRFC3339(t),
               ![path].wrote = [by |-> "update", at |-> t]]

\* a nil *Cached
NoCached == [found |-> FALSE]

\* getXAttr reads an attribute into make([]byte, 256)
XAttrBufLen == 256

\* an attribute value of XAttrBufLen + 1 bytes; the other values of the model
\* are as long as they are written
LongValue == "long"

\* len(data) of an attribute value
AttrLen(v) == IF v = LongValue THEN XAttrBufLen + 1 ELSE Len(v)

\* getXAttr(path, attr) returns an error: unix.Getxattr fails with ERANGE
\* when the value does not fit the buffer
getXAttrFails(v) == AttrLen(v) > XAttrBufLen

\* Cache.Get(path) on file tree st: nil for a missing file, an error when an
\* attribute cannot be read, else the three attributes
Get(st, cp) ==
    IF cp \notin DOMAIN st THEN [err |-> "nil", cached |-> NoCached]
    ELSE IF ~st[cp].attrs THEN [err |-> "getxattr", cached |-> NoCached]
    ELSE IF getXAttrFails(st[cp].mime) \/ getXAttrFails(st[cp].etag)
    THEN [err |-> "getxattr", cached |-> NoCached]
    ELSE [err |-> "nil",
          cached |-> [found |-> TRUE, mime |-> st[cp].mime, etag |-> st[cp].etag,
                      validated |-> st[cp].validated]]

\* revalidate in the handler:
\* cached.Validated.Add(cfg.UnconditionalCacheTime).Before(time.Now())
RevalidateAtBoundary(cached, t) ==
    cached.found /\ cached.validated + UnconditionalCacheTime <= t

Revalidate(cached, t) ==
    cached.found /\ cached.validated + UnconditionalCacheTime < t

\* the handler between requests
IdleHandler ==
    [pc |-> "idle", registry |-> "", path |-> "", cached |-> NoCached,
     revalidate |-> FALSE, at |-> 0, token |-> "", upstream |-> 0,
     failed |-> "none", resp |-> [kind |-> "none"], tmpf |-> NIL,
     status |-> "none", cl |-> <<>>, created |-> FALSE]

\* serveFromCache(): the headers come from cached, the body from the file
\* http.ServeFileFS finds at cachePath
serveFromCache(hh, st) ==
    LET cp == CachePath(hh.registry, hh.path)
    IN  [hh EXCEPT !.pc = "done",
                   !.resp = [kind |-> "cache", mime |-> hh.cached.mime,
                             etag |-> hh.cached.etag,
                             body |-> IF cp \in DOMAIN st THEN st[cp].body ELSE "404"]]

\* return logutil.NewError(err, msg): the handler returns an error
returnError(hh, msg) == [hh EXCEPT !.pc = "done", !.resp = [kind |-> "error", msg |-> msg]]

\* the handler with every upstream error returned to the client, stale copy or not
absorbNever(hh, st, what, msg) == returnError([hh EXCEPT !.failed = what], msg)

\* if revalidate && err != nil { serveFromCache } ; if err != nil { return err }
absorb(hh, st, what, msg) ==
    IF hh.revalidate
    THEN serveFromCache([hh EXCEPT !.failed = what], st)
    ELSE returnError([hh EXCEPT !.failed = what], msg)

\* the cache directory NewCache was opened on: objects an earlier run left,
\* validated at time 0
InitStores ==
    {st \in [RequestRegistries ->
                {[present |-> FALSE]} \cup
                {[present |-> TRUE, attrs |-> TRUE, mime |-> "m", etag |-> "e1",
                  validated |-> 0, body |-> "e1",
                  wrote |-> [by |-> "left"]]}] : TRUE}

StoreOf(st) ==
    [cp \in {CachePath(r, "x") : r \in {q \in RequestRegistries : st[q].present}} |->
        [attrs |-> st[cp[1]].attrs, mime |-> st[cp[1]].mime, etag |-> st[cp[1]].etag,
         validated |-> st[cp[1]].validated, body |-> st[cp[1]].body,
         wrote |-> st[cp[1]].wrote]]

InitProxy ==
    /\ \E st \in InitStores : store = StoreOf(st)
    /\ now = 0
    /\ h = IdleHandler
    /\ files = newFiles
    /\ touched = <<>>
    /\ lastCall = [op |-> "newFiles"]
    /\ disk = <<>>
    /\ tmp = {}
    /\ usedBytes = 0
    /\ usedAtOpen = 0
    /\ stores = 0

nonProxyVars == <<files, touched, lastCall, disk, tmp, usedBytes, usedAtOpen, stores>>

\* time passes
Tick ==
    /\ now < MaxTime
    /\ now' = now + 1
    /\ UNCHANGED <<store, h, nonProxyVars>>

\* The handler from its entry to the registry lookup: cache.Get, the fresh
\* hit, app.regs[registry].  getErr: Chtimes fails with an I/O error.
Begin(registry, path, getErr) ==
    /\ h.pc \in {"idle", "done"}
    /\ LET cp == CachePath(registry, path)
           g  == Get(store, cp)
           h0 == [IdleHandler EXCEPT !.registry = registry, !.path = path, !.at = now]
       IN  IF getErr \/ g.err # "nil"
           THEN h' = returnError(h0, "check cache")
           ELSE LET h1 == [h0 EXCEPT !.cached = g.cached,
                                     !.revalidate = Revalidate(g.cached, now)]
                IN  IF h1.cached.found /\ ~h1.revalidate
                    THEN h' = serveFromCache(h1, store)
                    ELSE IF registry \notin DOMAIN regs
                    THEN h' = [h1 EXCEPT !.pc = "done", !.resp = [kind |-> "notfound"]]
                    ELSE h' = [h1 EXCEPT !.pc = "preflight"]
    /\ UNCHANGED <<store, now, nonProxyVars>>

\* App.preflight: the HEAD request.  answer is what the upstream does.
Preflight(answer) ==
    /\ h.pc = "preflight"
    /\ LET h1 == [h EXCEPT !.upstream = h.upstream + 1]
       IN  CASE answer = "200" -> h' = [h1 EXCEPT !.pc = "get"]
             [] answer = "401" -> h' = [h1 EXCEPT !.pc = "token"]
             [] OTHER -> h' = absorb(h1, store, "preflight", "preflight")
    /\ UNCHANGED <<store, now, nonProxyVars>>

\* App.fetchToken, called by App.preflight after a 401 with a challenge
FetchToken(answer) ==
    /\ h.pc = "token"
    /\ LET h1 == [h EXCEPT !.upstream = h.upstream + 1]
       IN  IF answer = "ok"
           THEN h' = [h1 EXCEPT !.pc = "get", !.token = "t"]
           ELSE h' = absorb(h1, store, "token", "preflight")
    /\ UNCHANGED <<store, now, nonProxyVars>>

\* The handler from app.client.Do(req) to cache.Create.  answer: a transport
\* error or the status; etag, ctype, cl: the ETag, Content-Type and
\* Content-Length of a 200; ioErr: the cache call made fails ("open":
\* OpenFile, "xattr": setting an attribute); name: the name Create draws for
\* the temporary file.  status, cl and created (history): the answer, the
\* Content-Length the handler copied to its own response, and whether
\* Create made a temporary file.
UpstreamGet(answer, etag, ctype, cl, ioErr, name) ==
    /\ h.pc = "get"
    /\ LET h1 == [h EXCEPT !.upstream = h.upstream + 1, !.status = answer,
                           !.cl = IF answer = "200" THEN cl ELSE <<>>]
           cp == CachePath(h.registry, h.path)
       IN  CASE answer = "transport" ->
                 /\ h' = absorb(h1, store, "get", "do request")
                 /\ store' = store
             [] answer = "500" ->
                 /\ h' = absorb(h1, store, "status", "do request")
                 /\ store' = store
             [] answer = "304" ->
                 \* cache.UpdateValidated(cachePath), then serveFromCache
                 IF ioErr # "none" \/ cp \notin DOMAIN store
                 THEN /\ h' = returnError([h1 EXCEPT !.failed = "update"],
                                          "update cache expiry")
                      /\ store' = store
                 ELSE /\ store' = UpdateValidated(store, cp, now)
                      /\ h' = serveFromCache(h1, store')
             [] answer = "200" ->
                 \* cache.Create(contentType, eTag)
                 IF ioErr = "open" \/ name \in DOMAIN store
                 THEN /\ h' = returnError([h1 EXCEPT !.failed = "create"],
                                          "create cache file")
                      /\ store' = store
                 ELSE IF ioErr = "xattr"
                 THEN /\ h' = returnError([h1 EXCEPT !.failed = "create",
                                                     !.created = TRUE],
                                          "create cache file")
                      /\ store' = (name :> [attrs |-> FALSE, mime |-> "",
                                                etag |-> "", validated |-> 0,
                                                body |-> "",
                                                wrote |-> [by |-> "create"]])
                                  @@ store
                 ELSE /\ h' = [h1 EXCEPT !.pc = "copy", !.tmpf = name,
                                          !.created = TRUE]
                      /\ store' = (name :> [attrs |-> TRUE, mime |-> ctype,
                                                etag |-> etag,
                                                validated |-> FormatRFC3339(now),
                                                body |-> "partial",
                                                wrote |-> [by |-> "create"]])
                                  @@ store
    /\ UNCHANGED <<now, nonProxyVars>>

\* The handler from io.Copy to its return: the tee into the temporary file,
\* cache.Store(f, cachePath), the deferred cleanup.  copyErr: a transport
\* error while the body is streamed; storeErr: MkdirAll, Close or Rename fails.
CopyAndStore(copyErr, storeErr) ==
    /\ h.pc = "copy"
    /\ LET cp      == CachePath(h.registry, h.path)
           cleaned == [q \in (DOMAIN store) \ {h.tmpf} |-> store[q]]
       IN  IF copyErr
           THEN /\ h' = returnError([h EXCEPT !.failed = "copy", !.tmpf = NIL], "copy")
                /\ store' = cleaned
           ELSE IF storeErr
           THEN /\ h' = returnError([h EXCEPT !.failed = "store", !.tmpf = NIL],
                                    "store cache file")
                /\ store' = cleaned
           ELSE /\ h' = [h EXCEPT !.pc = "done", !.tmpf = NIL,
                                  !.resp = [kind |-> "proxied",
                                            etag |-> store[h.tmpf].etag]]
                /\ store' = [q \in (DOMAIN cleaned) \cup {cp} |->
                                IF q = cp
                                THEN [store[h.tmpf] EXCEPT !.body = store[h.tmpf].etag]
                                ELSE cleaned[q]]
    /\ UNCHANGED <<now, nonProxyVars>>

NextProxy ==
    \/ Tick
    \/ \E r \in RequestRegistries, p \in RequestPaths, getErr \in BOOLEAN :
          Begin(r, p, getErr)
    \/ \E a \in {"transport", "200", "401", "badchallenge", "500"} : Preflight(a)
    \/ \E a \in {"transport", "status", "ctype", "decode", "ok"} : FetchToken(a)
    \/ \E a \in {"transport", "500", "304", "200"}, e \in UpstreamETags,
          ct \in UpstreamContentTypes, cl \in UpstreamContentLengths,
          ioErr \in {"none", "open", "xattr"}, t \in TempPaths :
              UpstreamGet(a, e, ct, cl, ioErr, t)
    \/ \E copyErr \in BOOLEAN, storeErr \in BOOLEAN : CopyAndStore(copyErr, storeErr)

SpecProxy == InitProxy /\ [][NextProxy]_vars

\* the request being served is a revalidation: a cached object exists and is stale
Revalidating == h.cached.found /\ h.revalidate

\* C4 as claimed: during a revalidation every error in the upstream path, a
\* transport error while the 200 body is streamed included, is absorbed: the
\* handler serves the stale copy and returns no error.
C4_EveryUpstreamErrorAbsorbed ==
    (/\ Revalidating
     /\ h.pc = "done"
     /\ h.failed \in {"preflight", "token", "get", "status", "copy"})
        => h.resp.kind = "cache"

\* C4 as amended: during a revalidation a preflight failure, a token
\* acquisition failure, a transport error on the GET and a status other than
\* 200/304 are absorbed: the handler serves from the cache with the stale
\* object's headers and returns no error.  (A transport error while the 200
\* body is streamed is returned as an error.)
C4_ErrorsBeforeBodyAbsorbed ==
    /\ (/\ Revalidating
        /\ h.pc = "done"
        /\ h.failed \in {"preflight", "token", "get", "status"})
           => /\ h.resp.kind = "cache"
              /\ h.resp.etag = h.cached.etag
              /\ h.resp.mime = h.cached.mime
              /\ h.resp.body = store[CachePath(h.registry, h.path)].body
    /\ (h.pc = "done" /\ h.failed = "copy") => h.resp = [kind |-> "error", msg |-> "copy"]

\* a stale object served after the GET failed in transport, the preflight
\* and the token request having succeeded
C4_Witness ==
    /\ Revalidating
    /\ h.pc = "done"
    /\ h.failed = "get"
    /\ h.upstream = 3
    /\ h.resp.kind = "cache"

\* C5: when cache.Get returns an object and now is not after validated_at +
\* UnconditionalCacheTime, the handler serves from the cache and makes no
\* upstream request (no HEAD, no token request, no GET).
C5_FreshHitNoUpstream ==
    (/\ h.pc # "idle"
     /\ h.cached.found
     /\ ~(h.at > h.cached.validated + UnconditionalCacheTime))
        => /\ h.pc = "done"
           /\ h.resp.kind = "cache"
           /\ h.resp.etag = h.cached.etag
           /\ h.upstream = 0

\* a hit exactly at validated_at + UnconditionalCacheTime, on an object this
\* run fetched
C5_Witness ==
    /\ h.pc = "done"
    /\ h.cached.found
    /\ h.cached.etag = "e2"
    /\ h.at = h.cached.validated + UnconditionalCacheTime
    /\ h.resp.kind = "cache"
    /\ h.upstream = 0

\* C6: a request whose {registry} is not in the alias table is answered 404
\* "registry not found", whatever the store holds; no cached content is
\* served and no upstream request is made.  (A request that failed on an I/O
\* error of the cache lookup is left aside.)
C6_UnknownRegistryNotFound ==
    (/\ h.pc = "done"
     /\ h.registry \notin DOMAIN regs
     /\ h.resp # [kind |-> "error", msg |-> "check cache"])
        => /\ h.resp.kind = "notfound"
           /\ h.upstream = 0

\* the decimal digits and their values
DigitValue ==
    [c \in {"0", "1", "2", "3", "4", "5", "6", "7", "8", "9"} |->
        CASE c = "0" -> 0 [] c = "1" -> 1 [] c = "2" -> 2 [] c = "3" -> 3
          [] c = "4" -> 4 [] c = "5" -> 5 [] c = "6" -> 6 [] c = "7" -> 7
          [] c = "8" -> 8 [] c = "9" -> 9]

\* the digits of an unsigned decimal number read from the left, acc the
\* value so far: a character that is no digit is a syntax error, a value
\* that does not fit the unsigned integer is a range error
RECURSIVE ParseDigits(_, _)
ParseDigits(s, acc) ==
    IF s = <<>> THEN [ok |-> TRUE, n |-> acc]
    ELSE IF Head(s) \notin DOMAIN DigitValue THEN [ok |-> FALSE, n |-> 0]
    ELSE IF acc * 10 + DigitValue[Head(s)] >= UintMod THEN [ok |-> FALSE, n |-> 0]
    ELSE ParseDigits(Tail(s), acc * 10 + DigitValue[Head(s)])

\* a header value parses as an unsigned integer of the counter's width; the
\* empty text is the absent header
ParsesAsUint(s) == s # <<>> /\ ParseDigits(s, 0).ok

\* C14: in fetch-and-store, when the upstream 200 response has no
\* Content-Length header or one that does not parse as an unsigned 64-bit
\* integer, the handler returns an error, creates no temp file and publishes
\* nothing (so an object is published only from a response whose
\* Content-Length parses).
C14_ContentLengthRequired ==
    (h.status = "200" /\ ~ParsesAsUint(h.cl))
        => /\ h.pc = "done"
           /\ h.resp.kind = "error"
           /\ ~h.created

\* C15: on every exit path of the handler after the temp file was created
\* (Create failing while setting an attribute, body-copy error, Store error,
\* success) the temp file no longer exists under -/tmp when the handler
\* returns: it was renamed to its key or removed by the cleanup; and the
\* cleanup after a successful publish does not remove the published object.
C15_TempFileGoneOnReturn ==
    h.pc \in {"idle", "done"} =>
        /\ (DOMAIN store) \cap TempPaths = {}
        /\ h.resp.kind = "proxied" => CachePath(h.registry, h.path) \in DOMAIN store

\* C16: for every object that this system produced (Create then Store from
\* an upstream 200 response, whatever headers it carried) and that Get
\* returns, validated_at <= now and media_type, etag and validated_at are
\* all non-empty.  (The objects an earlier run left have all three set.)
C16_MetadataSet ==
    (h.pc # "idle" /\ h.cached.found)
        => /\ h.cached.validated <= h.at
           /\ h.cached.mime # ""
           /\ h.cached.etag # ""

\* the step is the handler taking a new request (Begin); the key it is for
TakesRequest == h.pc \in {"idle", "done"} /\ now' = now

\* the step is the handler receiving the 304 of a revalidation
Gets304 == h.pc = "get" /\ h.revalidate /\ h'.status = "304" /\ h'.failed = "none"

\* C17 as claimed: on a stale revalidation answered 304 the handler sets the
\* object's validated_at to now, leaves its bytes, media type and etag
\* unchanged, and serves from cache; a following request for the same key
\* arriving within UnconditionalCacheTime of that revalidation is a fresh hit
\* that makes no upstream request.
C17_RevalidatedAtNow ==
    [][/\ Gets304 =>
            LET cp == CachePath(h.registry, h.path)
            IN  /\ store'[cp].validated = now
                /\ store'[cp].body = store[cp].body
                /\ store'[cp].mime = store[cp].mime
                /\ store'[cp].etag = store[cp].etag
                /\ h'.pc = "done"
                /\ h'.resp.kind = "cache"
       /\ (/\ TakesRequest
           /\ h'.resp # [kind |-> "error", msg |-> "check cache"]
           /\ CachePath(h'.registry, h'.path) \in DOMAIN store
           /\ store[CachePath(h'.registry, h'.path)].wrote.by = "update"
           /\ now <= store[CachePath(h'.registry, h'.path)].wrote.at
                        + UnconditionalCacheTime)
              => /\ h'.pc = "done"
                 /\ h'.resp.kind = "cache"
                 /\ h'.upstream = 0
      ]_vars

\* C17 as amended: on a stale revalidation answered 304 the handler sets the
\* object's validated_at to now cut to the whole second (a whole number of
\* seconds, not after now and less than a second before it), leaves its
\* bytes, media type and etag unchanged, and serves from cache with the
\* object's headers; a following request for the same key arriving no later
\* than UnconditionalCacheTime after that validated_at is a fresh hit that
\* makes no upstream request.
C17_RevalidatedToTheSecond ==
    [][/\ Gets304 =>
            LET cp == CachePath(h.registry, h.path)
            IN  /\ store'[cp].validated % TicksPerSecond = 0
                /\ store'[cp].validated <= now
                /\ now - store'[cp].validated < TicksPerSecond
                /\ store'[cp].body = store[cp].body
                /\ store'[cp].mime = store[cp].mime
                /\ store'[cp].etag = store[cp].etag
                /\ h'.pc = "done"
                /\ h'.resp = [kind |-> "cache", mime |-> store[cp].mime,
                              etag |-> store[cp].etag, body |-> store[cp].body]
       /\ (/\ TakesRequest
           /\ h'.resp # [kind |-> "error", msg |-> "check cache"]
           /\ CachePath(h'.registry, h'.path) \in DOMAIN store
           /\ store[CachePath(h'.registry, h'.path)].wrote.by = "update"
           /\ now <= store[CachePath(h'.registry, h'.path)].validated
                        + UnconditionalCacheTime)
              => /\ h'.pc = "done"
                 /\ h'.resp.kind = "cache"
                 /\ h'.upstream = 0
      ]_vars

\* a fresh hit, with no upstream request, on an object whose last validation
\* was a 304 received half a second after a whole second, some time before
C17_Witness ==
    /\ h.pc = "done"
    /\ h.cached.found
    /\ h.resp.kind = "cache"
    /\ h.upstream = 0
    /\ CachePath(h.registry, h.path) \in DOMAIN store
    /\ store[CachePath(h.registry, h.path)].wrote.by = "update"
    /\ store[CachePath(h.registry, h.path)].wrote.at % TicksPerSecond # 0
    /\ h.at > store[CachePath(h.registry, h.path)].wrote.at
    /\ h.cached.validated = store[CachePath(h.registry, h.path)].validated

----------------------------------------------------------------------------
(* SpecObjects: the cache with the attributes and the bytes of its files.   *)
(* store gives every file under the root (published or under -/tmp) its     *)
(* attributes and bytes, now is the clock, h is the caller's record of the  *)
(* handles it holds.                                                        *)

ObjPaths == {"a", "b"}

\* SpecObjects follows the cache through at most MaxObjStores calls of
\* Store; the clock of SpecObjects and SpecTouch runs from 0 to MaxObjTime
\* ticks
MaxObjStores == 2

MaxObjTime == 2

\* the mimeType and eTag the caller gives Create
CreateArgs == {<<"m1", "e1">>, <<"m2", LongValue>>}

\* the bytes the caller writes to a handle, and how many they are
Payloads == {[id |-> "p1", n |-> 4], [id |-> "p2", n |-> MaxBytes + 1]}

\* what an earlier run left at a path
LeftObject == [attrs |-> TRUE, mime |-> "m0", etag |-> "e0", validated |-> 0,
               body |-> "p0", atime |-> 0]

\* st restricted to the files in ks
Restrict(st, ks) == [k \in (DOMAIN st) \cap ks |-> st[k]]

\* NewCache on a directory that is empty or holds the object an earlier run
\* left at a
InitObjects ==
    \E s \in Listings({"a"}) :
        /\ disk = TreeOf(s)
        /\ tmp = {}
        /\ files = InsertAll(newFiles, s)
        /\ usedBytes = SumSizes(TreeOf(s)) % UintMod
        /\ usedAtOpen = SumSizes(TreeOf(s)) % UintMod
        /\ stores = 0
        /\ store = [p \in PathsOf(s) |-> LeftObject]
        /\ now = 0
        /\ h = <<>>
        /\ touched = <<>>
        /\ lastCall = [op |-> "NewCache"]

ObjTick ==
    /\ now < MaxObjTime
    /\ now' = now + 1
    /\ UNCHANGED <<files, touched, lastCall, cacheVars, store, h>>

\* Cache.Create(mimeType, eTag).  xattrErr: one of the three setXAttr calls
\* fails; Create then returns a nil handle, the remover and the error.
ObjCreate(name, mt, et, xattrErr) ==
    /\ IF name \in tmp
       THEN /\ UNCHANGED <<tmp, store, h>>
            /\ lastCall' = [op |-> "Create", f |-> name, err |-> "exist"]
       ELSE /\ tmp' = tmp \cup {name}
            /\ store' = (name :> [attrs |-> ~xattrErr, mime |-> mt, etag |-> et,
                                  validated |-> FormatRFC3339(now), body |-> "",
                                  atime |-> now])
                        @@ store
            /\ h' = (name :> [open |-> ~xattrErr, mime |-> mt, etag |-> et,
                              at |-> now, body |-> "", n |-> 0]) @@ h
            /\ lastCall' = [op |-> "Create", f |-> name,
                            err |-> IF xattrErr THEN "setxattr" ELSE "nil"]
    /\ UNCHANGED <<files, touched, disk, usedBytes, usedAtOpen, stores, now>>

\* the caller writes a payload to the handle Create returned
ObjWrite(name, payload) ==
    /\ name \in tmp
    /\ h[name].open
    /\ h[name].body = ""
    /\ store' = [store EXCEPT ![name].body = payload.id]
    /\ h' = [h EXCEPT ![name].body = payload.id, ![name].n = payload.n]
    /\ lastCall' = [op |-> "Write", f |-> name]
    /\ UNCHANGED <<files, touched, cacheVars, now>>

\* the TempRemover Create returned
ObjTempRemover(name) ==
    /\ name \in tmp
    /\ tmp' = tmp \ {name}
    /\ store' = Restrict(store, (DOMAIN store) \ {name})
    /\ h' = Restrict(h, (DOMAIN h) \ {name})
    /\ lastCall' = [op |-> "TempRemover", f |-> name]
    /\ UNCHANGED <<files, touched, disk, usedBytes, usedAtOpen, stores, now>>

\* Cache.Store(f, path, size), the caller passing the number of bytes it
\* wrote.  The rename carries the file with its attributes to path.
ObjStore(name, path, rmErr, ioErr) ==
    /\ name \in tmp
    /\ h[name].open
    /\ stores < MaxObjStores
    /\ stores' = stores + 1
    /\ LET size == h[name].n
           r    == Store(files, disk, tmp, usedBytes, name, path, size, rmErr, ioErr)
           kept == Restrict(store, (DOMAIN r.disk) \cup r.tmp)
       IN  /\ files' = r.files
           /\ disk' = r.disk
           /\ tmp' = r.tmp
           /\ usedBytes' = r.used
           /\ store' = IF r.err = "nil" THEN (path :> store[name]) @@ kept ELSE kept
           /\ h' = Restrict(h, r.tmp)
           /\ lastCall' = [op |-> "Store", path |-> path, size |-> size,
                           err |-> r.err, made |-> h[name]]
    /\ UNCHANGED <<touched, usedAtOpen, now>>

\* Get with the entry of the file moved to the head of the index
ObjGetPromoting(path) ==
    /\ lastCall' = [op |-> "Get", path |-> path, err |-> Get(store, path).err,
                    cached |-> Get(store, path).cached, stored |-> [open |-> FALSE]]
    /\ store' = IF path \in DOMAIN store
                THEN [store EXCEPT ![path].atime = now] ELSE store
    /\ files' = IF path \in DOMAIN disk
                THEN InsertOrReplace(files, [path |-> path, size |-> disk[path]]).l
                ELSE files
    /\ UNCHANGED <<touched, cacheVars, now, h>>

\* Cache.Get(path).  c.root.Chtimes sets the access time of the file to now
\* before the attributes are read.  stored (history): when the call before
\* was the Store that published path, what the caller had made of the handle
\* it stored
ObjGet(path) ==
    /\ lastCall' = [op |-> "Get", path |-> path,
                    err |-> Get(store, path).err,
                    cached |-> Get(store, path).cached,
                    stored |-> IF /\ lastCall.op = "Store"
                                  /\ lastCall.err = "nil"
                                  /\ lastCall.path = path
                               THEN lastCall.made
                               ELSE [open |-> FALSE]]
    /\ store' = IF path \in DOMAIN store
                THEN [store EXCEPT ![path].atime = now] ELSE store
    /\ UNCHANGED <<files, touched, cacheVars, now, h>>

NextObjects ==
    \/ ObjTick
    \/ \E t \in TempNames, a \in CreateArgs, xattrErr \in BOOLEAN :
          ObjCreate(t, a[1], a[2], xattrErr)
    \/ \E t \in TempNames, w \in Payloads : ObjWrite(t, w)
    \/ \E t \in TempNames : ObjTempRemover(t)
    \/ \E t \in TempNames, p \in ObjPaths :
          \/ ObjStore(t, p, NIL, FALSE)
          \/ ObjStore(t, p, NIL, TRUE)
          \/ \E rmErr \in ObjPaths : ObjStore(t, p, rmErr, FALSE)
    \/ \E p \in ObjPaths : ObjGet(p)

SpecObjects == InitObjects /\ [][NextObjects]_vars

\* C12: publishing a key that is already published, with another payload and
\* other metadata, leaves one file and one index entry for the key; a
\* following Get returns the media type and etag of the second publication,
\* the file holds the second payload, and the key contributes only the
\* second size to used_bytes (which was and stays the sum of the sizes of the
\* published objects).  Stated for metadata that fits the attribute buffer.
C12_RepublishReplaces ==
    [][(/\ lastCall'.op = "Store"
        /\ stores' = stores + 1
        /\ lastCall'.err = "nil"
        /\ lastCall'.path \in DOMAIN disk
        /\ ~getXAttrFails(lastCall'.made.mime)
        /\ ~getXAttrFails(lastCall'.made.etag)
        /\ usedBytes = SumSizes(disk))
            => LET p == lastCall'.path
                   g == Get(store', p)
               IN  /\ p \in DOMAIN disk'
                   /\ disk'[p] = lastCall'.size
                   /\ p \in DOMAIN files'.nodes
                   /\ files'.nodes[p].f.size = lastCall'.size
                   /\ g.err = "nil"
                   /\ g.cached.found
                   /\ g.cached.mime = lastCall'.made.mime
                   /\ g.cached.etag = lastCall'.made.etag
                   /\ store'[p].body = lastCall'.made.body
                   /\ usedBytes' = SumSizes(disk')
      ]_vars

\* the Get that follows, with no call in between, the successful Store of the
\* same path
GetAfterStore == lastCall.op = "Get" /\ lastCall.stored.open

\* C13 as claimed: Create(mt, et), n bytes written, Store(handle, path, n)
\* succeeding and then Get(path) return a non-null object with media type mt,
\* etag et and validated_at equal to the time of Create, and the file at path
\* holds the n bytes written.
C13_RoundTripExact ==
    GetAfterStore =>
        /\ lastCall.err = "nil"
        /\ lastCall.cached.found
        /\ lastCall.cached.mime = lastCall.stored.mime
        /\ lastCall.cached.etag = lastCall.stored.etag
        /\ lastCall.cached.validated = lastCall.stored.at
        /\ store[lastCall.path].body = lastCall.stored.body
        /\ disk[lastCall.path] = lastCall.stored.n

\* C13 as amended: for mt and et that fit the 256 bytes Get reads an
\* attribute into, the round trip returns a non-null object with media type
\* mt, etag et and validated_at equal to the time of Create cut to the whole
\* second (a whole number of seconds, not after the time of Create and less
\* than a second before it), and the file at path holds the n bytes written.
C13_RoundTripToTheSecond ==
    (/\ GetAfterStore
     /\ ~getXAttrFails(lastCall.stored.mime)
     /\ ~getXAttrFails(lastCall.stored.etag))
        => /\ lastCall.err = "nil"
           /\ lastCall.cached.found
           /\ lastCall.cached.mime = lastCall.stored.mime
           /\ lastCall.cached.etag = lastCall.stored.etag
           /\ lastCall.cached.validated % TicksPerSecond = 0
           /\ lastCall.cached.validated <= lastCall.stored.at
           /\ lastCall.stored.at - lastCall.cached.validated < TicksPerSecond
           /\ store[lastCall.path].body = lastCall.stored.body
           /\ disk[lastCall.path] = lastCall.stored.n

\* a payload created half a second after a whole second, published over the
\* object an earlier run left and read back
C13_Witness ==
    /\ GetAfterStore
    /\ lastCall.cached.found
    /\ lastCall.stored.at % TicksPerSecond # 0
    /\ lastCall.cached.validated < lastCall.stored.at
    /\ lastCall.cached.etag = "e1"
    /\ store[lastCall.path].body = "p1"
    /\ usedAtOpen > 0
    /\ lastCall.path = "a"

\* file record r with its access time left out
WithoutAtime(r) == [k \in (DOMAIN r) \ {"atime"} |-> r[k]]

\* C26: Get(path), whether it returns an object, nil or an error, leaves the
\* recency index (entries and order), usedBytes and the files of the store as
\* they were, with their bytes, media type, etag and validated_at; only the
\* access time of the file at path may change.
C26_GetChangesAtimeOnly ==
    [][lastCall'.op = "Get" =>
          /\ files' = files
          /\ usedBytes' = usedBytes
          /\ disk' = disk
          /\ tmp' = tmp
          /\ DOMAIN store' = DOMAIN store
          /\ \A q \in DOMAIN store :
                /\ WithoutAtime(store'[q]) = WithoutAtime(store[q])
                /\ q # lastCall'.path => store'[q] = store[q]
      ]_vars

\* a Get that returned the older of two published objects, some time after
\* it was validated
C26_Witness ==
    /\ lastCall.op = "Get"
    /\ lastCall.err = "nil"
    /\ lastCall.cached.found
    /\ Cardinality(DOMAIN files.nodes) = 2
    /\ files.tail = lastCall.path
    /\ store[lastCall.path].atime = now
    /\ store[lastCall.path].validated < now

----------------------------------------------------------------------------
(* SpecTouch: Cache.UpdateValidated on a cache opened on the objects an     *)
(* earlier run left, as the clock goes on.                                  *)

\* NewCache on a directory holding any of the objects of ObjPaths
InitTouch ==
    \E s \in Listings(ObjPaths) :
        /\ disk = TreeOf(s)
        /\ tmp = {}
        /\ files = InsertAll(newFiles, s)
        /\ usedBytes = SumSizes(TreeOf(s)) % UintMod
        /\ usedAtOpen = SumSizes(TreeOf(s)) % UintMod
        /\ stores = 0
        /\ store = [p \in PathsOf(s) |-> LeftObject @@ [wrote |-> [by |-> "left"]]]
        /\ now = 0
        /\ h = <<>>
        /\ touched = <<>>
        /\ lastCall = [op |-> "NewCache"]

\* UpdateValidated writing the attribute of every object
TouchValidatedAll(path, xattrErr) ==
    /\ lastCall' = [op |-> "UpdateValidated", path |-> path, at |-> now,
                    err |-> IF path \notin DOMAIN store \/ xattrErr
                            THEN "setxattr" ELSE "nil"]
    /\ store' = IF path \notin DOMAIN store \/ xattrErr THEN store
                ELSE [q \in DOMAIN store |-> UpdateValidated(store, q, now)[q]]
    /\ UNCHANGED <<files, touched, cacheVars, now, h>>

\* a call of Cache.UpdateValidated(path).  unix.Setxattr fails when there is
\* no file at path; xattrErr: it fails for another reason.
TouchValidated(path, xattrErr) ==
    /\ lastCall' = [op |-> "UpdateValidated", path |-> path, at |-> now,
                    err |-> IF path \notin DOMAIN store \/ xattrErr
                            THEN "setxattr" ELSE "nil"]
    /\ store' = IF path \notin DOMAIN store \/ xattrErr THEN store
                ELSE UpdateValidated(store, path, now)
    /\ UNCHANGED <<files, touched, cacheVars, now, h>>

NextTouch ==
    \/ ObjTick
    \/ \E p \in ObjPaths, xattrErr \in BOOLEAN : TouchValidated(p, xattrErr)

SpecTouch == InitTouch /\ [][NextTouch]_vars

\* file record r with validated_at and the record of who wrote it left out
WithoutValidated(r) == [k \in (DOMAIN r) \ {"validated", "wrote"} |-> r[k]]

\* what a call of UpdateValidated leaves alone: the index, usedBytes, the
\* files of the store, every other object, and the bytes, media type and etag
\* of the object at path; everything when it returns an error, which it does
\* on a missing path
TouchFrame ==
    /\ files' = files
    /\ usedBytes' = usedBytes
    /\ disk' = disk
    /\ tmp' = tmp
    /\ DOMAIN store' = DOMAIN store
    /\ \A q \in DOMAIN store :
          /\ WithoutValidated(store'[q]) = WithoutValidated(store[q])
          /\ q # lastCall'.path => store'[q] = store[q]
    /\ lastCall'.path \notin DOMAIN store => lastCall'.err # "nil"
    /\ lastCall'.err # "nil" => store' = store

\* C27 as stated: UpdateValidated(path) changes only the validated_at of the
\* object at path, setting it to now, and on a missing path returns an error
\* and changes nothing.
C27_TouchSetsNow ==
    [][lastCall'.op = "UpdateValidated" =>
          /\ TouchFrame
          /\ lastCall'.err = "nil" => store'[lastCall'.path].validated = now
      ]_vars

\* C27, amended: UpdateValidated(path) changes only the validated_at of the
\* object at path, setting it to now truncated to the whole second, and on a
\* missing path returns an error and changes nothing.
C27_TouchSetsSecond ==
    [][lastCall'.op = "UpdateValidated" =>
          /\ TouchFrame
          /\ lastCall'.err = "nil" =>
                LET v == store'[lastCall'.path].validated
                IN  v % TicksPerSecond = 0 /\ v <= now /\ now - v < TicksPerSecond
      ]_vars

\* two objects, one of them revalidated in the middle of a second and the
\* other as the earlier run left it
C27_Witness ==
    /\ lastCall.op = "UpdateValidated"
    /\ lastCall.err = "nil"
    /\ Cardinality(DOMAIN store) = 2
    /\ lastCall.at % TicksPerSecond # 0
    /\ store[lastCall.path].wrote = [by |-> "update", at |-> lastCall.at]
    /\ store[lastCall.path].validated = lastCall.at - 1
    /\ \E q \in DOMAIN store : store[q].wrote.by = "left"

----------------------------------------------------------------------------
(* SpecConc: handlers that fetch and publish at the same time.  Each        *)
(* handler runs Create, the copy of the body and Store one step at a time:  *)
(* every read or write of the file tree, of usedBytes and of the index is a *)
(* step of its own, and the steps of the handlers interleave freely.  h     *)
(* gives every handler its position and its local variables; store is the  *)
(* file tree with the attributes and bytes of its files.                    *)

Procs == {1, 2}

\* the name rand.Uint64() gives the temporary file of handler i
TempOf(i) == IF i = 1 THEN "-/tmp/1" ELSE "-/tmp/2"

\* the keys handler i may publish: the first handler publishes a, the second
\* the same key or another one
KeysOf(i) == IF i = 1 THEN {"a"} ELSE ObjPaths

\* the Content-Type, the ETag and the body handler i received
MimeOf(i) == IF i = 1 THEN "m1" ELSE "m2"

ETagOf(i) == IF i = 1 THEN "e1" ELSE "e2"

BodyOf(i) == IF i = 1 THEN "p1" ELSE "p2"

\* what an earlier run left at a path, n bytes long.  by (history) is the
\* handler that created the file, 0 for the earlier run; full (history)
\* says that the whole body was written
LeftFile(n) == [mime |-> "m0", etag |-> "e0", body |-> "p0", n |-> n, by |-> 0,
                full |-> TRUE, validated |-> 0, wrote |-> [by |-> "left"]]

\* the handler before its upstream response
ProcStart == [pc |-> "start", path |-> "", size |-> 0, toEvict |-> 0, n |-> NIL,
              old |-> 0, err |-> "nil"]

\* the published files of file tree st with their sizes
PublishedOf(st) == [q \in {r \in DOMAIN st : r \notin {TempOf(i) : i \in Procs}} |-> st[q].n]

\* files.mu is held: a handler is inside files.Range
Locked == \E i \in Procs : h[i].pc \in {"visit", "account"}

InitConc ==
    \E s \in Listings(ObjPaths) :
        /\ disk = TreeOf(s)
        /\ tmp = {}
        /\ files = InsertAll(newFiles, s)
        /\ usedBytes = SumSizes(TreeOf(s)) % UintMod
        /\ usedAtOpen = SumSizes(TreeOf(s)) % UintMod
        /\ stores = 0
        /\ store = [q \in PathsOf(s) |-> LeftFile(TreeOf(s)[q])]
        /\ now = 0
        /\ h = [i \in Procs |-> ProcStart]
        /\ touched = <<>>
        /\ lastCall = [op |-> "none"]

\* the file tree st after file q is removed, and after it is written
ConcTree(st) ==
    /\ store' = st
    /\ disk' = PublishedOf(st)
    /\ tmp' = {TempOf(i) : i \in Procs} \cap DOMAIN st

\* app.cache.Create(contentType, eTag) by handler i, about to publish path
ConcCreate(i, path) ==
    /\ h[i].pc = "start"
    /\ ConcTree((TempOf(i) :> [mime |-> MimeOf(i), etag |-> ETagOf(i), body |-> "",
                               n |-> 0, by |-> i, full |-> FALSE,
                               validated |-> FormatRFC3339(now),
                               wrote |-> [by |-> "create"]]) @@ store)
    /\ h' = [h EXCEPT ![i].pc = "copy", ![i].path = path]
    /\ UNCHANGED <<files, touched, lastCall, usedBytes, usedAtOpen, stores, now>>

\* the deferred cleanup of handler i on file tree st: the temporary file is
\* closed and removed
Cleanup(st, i) == Restrict(st, (DOMAIN st) \ {TempOf(i)})

\* io.Copy(w, body): the body is written to the temporary file, size bytes of
\* it; when it fails the handler returns and the cleanup runs
ConcCopy(i, size, failed) ==
    /\ h[i].pc = "copy"
    /\ IF failed
       THEN /\ ConcTree(Cleanup(store, i))
            /\ h' = [h EXCEPT ![i].pc = "done", ![i].err = "copy"]
       ELSE /\ ConcTree([store EXCEPT ![TempOf(i)].body = BodyOf(i),
                                      ![TempOf(i)].n = size,
                                      ![TempOf(i)].full = TRUE])
            /\ h' = [h EXCEPT ![i].pc = "evict", ![i].size = size]
    /\ UNCHANGED <<files, touched, lastCall, usedBytes, usedAtOpen, stores, now>>

\* Cache.evict(size), its first statement: nothing to do when the counter
\* read plus size is within maxBytes
ConcEvictCheck(i) ==
    /\ h[i].pc = "evict"
    /\ h' = [h EXCEPT ![i].pc = IF (usedBytes + h[i].size) % UintMod <= MaxBytes
                                THEN "rename" ELSE "lock",
                      ![i].toEvict = h[i].size]
    /\ UNCHANGED <<files, touched, lastCall, cacheVars, store, now>>

\* files.Range: l.mu.Lock() and the start of the loop at the tail
ConcLock(i) ==
    /\ h[i].pc = "lock"
    /\ ~Locked
    /\ h' = [h EXCEPT ![i].pc = "visit", ![i].n = files.tail]
    /\ UNCHANGED <<files, touched, lastCall, cacheVars, store, now>>

\* files.Range calls the callback of evict on node n: c.root.Remove(f.path).
\* A missing file makes the callback return nil and the loop go on; rmErr:
\* Remove fails otherwise, Range unlocks and returns the error, Store returns
\* it and the cleanup runs.  At the end of the list Range unlocks and returns.
ConcVisit(i, rmErr) ==
    /\ h[i].pc = "visit"
    /\ IF h[i].n = NIL
       THEN /\ h' = [h EXCEPT ![i].pc = "rename"]
            /\ UNCHANGED <<store, disk, tmp>>
       ELSE LET f == files.nodes[h[i].n].f
            IN  IF f.path \notin DOMAIN disk
                THEN /\ h' = [h EXCEPT ![i].n = files.nodes[h[i].n].prev]
                     /\ UNCHANGED <<store, disk, tmp>>
                ELSE IF rmErr
                THEN /\ h' = [h EXCEPT ![i].pc = "done", ![i].err = "evict"]
                     /\ ConcTree(Cleanup(store, i))
                ELSE /\ h' = [h EXCEPT ![i].pc = "account"]
                     /\ ConcTree(Restrict(store, (DOMAIN store) \ {f.path}))
    /\ UNCHANGED <<files, touched, lastCall, usedBytes, usedAtOpen, stores, now>>

\* the callback calling files.Delete, which locks files.mu, before it goes on
ConcAccountDeleting(i) ==
    /\ h[i].pc = "account"
    /\ ~Locked
    /\ usedBytes' = atomicSubtract(usedBytes, files.nodes[h[i].n].f.size)
    /\ h' = [h EXCEPT ![i].pc = "visit", ![i].n = files.nodes[h[i].n].prev]
    /\ UNCHANGED <<files, touched, lastCall, disk, tmp, usedAtOpen, stores, store, now>>

\* the callback after its Remove succeeded: atomicSubtract(&c.usedBytes,
\* f.size), toEvict -= f.size, errRangeDone when toEvict <= 0 (Range unlocks
\* and returns), else on to n.prev
ConcAccount(i) ==
    /\ h[i].pc = "account"
    /\ LET f    == files.nodes[h[i].n].f
           left == h[i].toEvict - f.size
       IN  /\ usedBytes' = atomicSubtract(usedBytes, f.size)
           /\ h' = [h EXCEPT ![i].toEvict = left,
                             ![i].pc = IF left <= 0 THEN "rename" ELSE "visit",
                             ![i].n = IF left <= 0 THEN NIL
                                      ELSE files.nodes[h[i].n].prev]
    /\ UNCHANGED <<files, touched, lastCall, disk, tmp, usedAtOpen, stores, store, now>>

\* publication that writes the body over the file at the key
ConcRenameCopies(i, ioErr) ==
    /\ h[i].pc = "rename"
    /\ IF ioErr
       THEN /\ ConcTree(Cleanup(store, i))
            /\ h' = [h EXCEPT ![i].pc = "done", ![i].err = "io"]
       ELSE /\ ConcTree(Cleanup(
                   IF h[i].path \in DOMAIN store
                   THEN [store EXCEPT ![h[i].path].body = store[TempOf(i)].body,
                                      ![h[i].path].n = store[TempOf(i)].n]
                   ELSE (h[i].path :> store[TempOf(i)]) @@ store, i))
            /\ h' = [h EXCEPT ![i].pc = "insert"]
    /\ UNCHANGED <<files, touched, lastCall, usedBytes, usedAtOpen, stores, now>>

\* Store after evict returned nil: MkdirAll, f.Close() and
\* c.root.Rename(temp, path), which puts the temporary file with its
\* attributes at path in one step.  ioErr: one of the three fails, Store
\* returns the error and the cleanup runs.
ConcRename(i, ioErr) ==
    /\ h[i].pc = "rename"
    /\ IF ioErr
       THEN /\ ConcTree(Cleanup(store, i))
            /\ h' = [h EXCEPT ![i].pc = "done", ![i].err = "io"]
       ELSE /\ ConcTree(Cleanup((h[i].path :> store[TempOf(i)]) @@ store, i))
            /\ h' = [h EXCEPT ![i].pc = "insert"]
    /\ UNCHANGED <<files, touched, lastCall, usedBytes, usedAtOpen, stores, now>>

\* c.files.InsertOrReplace(file{path, size}), under files.mu
ConcInsert(i) ==
    /\ h[i].pc = "insert"
    /\ ~Locked
    /\ LET r == InsertOrReplace(files, [path |-> h[i].path, size |-> h[i].size])
       IN  /\ files' = r.l
           /\ h' = [h EXCEPT ![i].pc = IF r.replaced THEN "sub" ELSE "add",
                             ![i].old = r.old.size]
    /\ UNCHANGED <<touched, lastCall, cacheVars, store, now>>

\* atomicSubtract(&c.usedBytes, old.size) when an entry was replaced
ConcSub(i) ==
    /\ h[i].pc = "sub"
    /\ usedBytes' = atomicSubtract(usedBytes, h[i].old)
    /\ h' = [h EXCEPT ![i].pc = "add"]
    /\ UNCHANGED <<files, touched, lastCall, disk, tmp, usedAtOpen, stores, store, now>>

\* atomic.AddUint64(&c.usedBytes, size); Store returns nil
ConcAdd(i) ==
    /\ h[i].pc = "add"
    /\ usedBytes' = atomicAdd(usedBytes, h[i].size)
    /\ h' = [h EXCEPT ![i].pc = "done"]
    /\ UNCHANGED <<files, touched, lastCall, disk, tmp, usedAtOpen, stores, store, now>>

\* a Cache.Get(path) by another request, once: it takes no lock
ConcGet(path) ==
    /\ lastCall.op = "none"
    /\ lastCall' = [op |-> "Get", path |-> path,
                    got |-> IF path \in DOMAIN store THEN store[path] ELSE NoCached]
    /\ UNCHANGED <<files, touched, cacheVars, proxyVars>>

\* the next step of handler i
ProcStep(i) ==
    \/ \E path \in KeysOf(i) : ConcCreate(i, path)
    \/ \E size \in Sizes, failed \in BOOLEAN : ConcCopy(i, size, failed)
    \/ ConcEvictCheck(i)
    \/ ConcLock(i)
    \/ \E rmErr \in BOOLEAN : ConcVisit(i, rmErr)
    \/ ConcAccount(i)
    \/ \E ioErr \in BOOLEAN : ConcRename(i, ioErr)
    \/ ConcInsert(i)
    \/ ConcSub(i)
    \/ ConcAdd(i)

NextConc ==
    \/ \E i \in Procs : ProcStep(i)
    \/ \E path \in ObjPaths : ConcGet(path)

SpecConc == InitConc /\ [][NextConc]_vars

\* every handler has returned
AllReturned == \A i \in Procs : h[i].pc = "done"

\* C28: once all the concurrent Store operations have returned nil, whatever
\* their interleaving, usedBytes is at least the sum of the sizes of the
\* published objects, and it has not wrapped below zero: it is no more than
\* what NewCache counted plus what the handlers published.
C28_CounterConservative ==
    (AllReturned /\ \A i \in Procs : h[i].err = "nil") =>
        /\ usedBytes >= SumSizes(disk)
        /\ usedBytes <= usedAtOpen + h[1].size + h[2].size

\* C29: at every instant, under every interleaving of the handlers, the
\* file at a key (there is at most one: store is a function of the path) is
\* a complete object whose bytes, media type and etag come from one single
\* Create/Store: those of the handler that created it, with the whole body
\* written, or those an earlier run left.
C29_PublishedIsOneWhole ==
    \A q \in DOMAIN disk :
        LET r == store[q]
        IN  /\ r.full
            /\ r.by = 0 => r = LeftFile(r.n)
            /\ r.by # 0 =>
                  /\ r.by \in Procs
                  /\ h[r.by].path = q
                  /\ r.mime = MimeOf(r.by)
                  /\ r.etag = ETagOf(r.by)
                  /\ r.body = BodyOf(r.by)
                  /\ r.n = h[r.by].size

\* both handlers published the same key, over an object an earlier run had
\* left: the second rename replaced the file of the first while the first
\* was still in Store
C29_Witness ==
    /\ \A i \in Procs : h[i].path = "a" /\ h[i].err = "nil"
    /\ h[1].pc = "insert"
    /\ h[2].pc = "insert"
    /\ "a" \in DOMAIN disk
    /\ store["a"].by = 2
    /\ usedAtOpen > 0

\* SpecConc with every handler scheduled again and again: a goroutine that
\* can take a step eventually takes one
SpecConcFair == SpecConc /\ \A i \in Procs : WF_vars(ProcStep(i))

\* C30: no deadlock on the recency index.  The callback of evict takes no
\* lock, so under fair scheduling a handler waiting for files.mu, in Range or
\* in InsertOrReplace, eventually has it, and every handler eventually
\* returns from Store: all handlers have eventually returned, which a
\* handler reaches from its wait for files.mu only by taking it.
C30_NoDeadlock == <>AllReturned

\* a handler waits for files.mu to start its eviction pass while the other
\* is inside the callback of its own pass
C30_Witness ==
    /\ h[1].pc = "lock"
    /\ h[2].pc = "account"
    /\ Cardinality(DOMAIN files.nodes) = 2

----------------------------------------------------------------------------
(* SpecServe: SpecConc with the request that called Get going on to serve   *)
(* from the cache, directly or after a 304, while the handlers publish.     *)

\* the request got an object from Get and has not served it yet
GotCached(call) == call.op \in {"Get", "UpdateValidated"} /\ call.got # NoCached

\* the 304 path: app.cache.UpdateValidated(cachePath); when it fails the
\* handler returns the error and serves nothing
ServeUpdateValidated ==
    /\ lastCall.op = "Get"
    /\ GotCached(lastCall)
    /\ IF lastCall.path \in DOMAIN store
       THEN /\ lastCall' = [lastCall EXCEPT !.op = "UpdateValidated"] @@ [err |-> "nil"]
            /\ ConcTree(UpdateValidated(store, lastCall.path, now))
       ELSE /\ lastCall' = [lastCall EXCEPT !.op = "Failed"] @@ [err |-> "setxattr"]
            /\ UNCHANGED <<store, disk, tmp>>
    /\ UNCHANGED <<files, touched, usedBytes, usedAtOpen, stores, now, h>>

\* serveFromCache: the headers are set from cached, then http.ServeFileFS
\* opens the file at cachePath and sends what it holds, or answers 404 when
\* there is none.  sent is what the client receives.
ServeFromCache ==
    /\ GotCached(lastCall)
    /\ lastCall' = [op |-> "Serve", path |-> lastCall.path, got |-> lastCall.got,
                    sent |-> IF lastCall.path \in DOMAIN store
                             THEN [found |-> TRUE,
                                   body |-> store[lastCall.path].body,
                                   by |-> store[lastCall.path].by]
                             ELSE [found |-> FALSE, body |-> "404", by |-> 0]]
    /\ UNCHANGED <<files, touched, cacheVars, proxyVars>>

NextServe ==
    \/ NextConc
    \/ ServeUpdateValidated
    \/ ServeFromCache

SpecServe == InitConc /\ [][NextServe]_vars

\* C31: a handler that got an object from cache.Get and serves from the
\* cache delivers bytes to the client, whatever the concurrent Store
\* operations and their evictions do in between: the object is still at its
\* key when it is served, and when the UpdateValidated of the 304 path runs,
\* which does not fail.
C31_ServesWhatItGot ==
    /\ lastCall.op = "Serve" => lastCall.sent.found
    /\ lastCall.op # "Failed"

----------------------------------------------------------------------------
(* SpecPath: Cache.absoluteInRoot on the paths a request can carry.  A path *)
(* text is the sequence of its segments, the pieces between its slashes:    *)
(* "../../asdf" is <<"..", "..", "asdf">>, "/test" is <<"", "test">>, "/"   *)
(* is <<"", "">> and the empty text is <<"">>.                              *)

\* a user-supplied path has at most MaxSegs segments
MaxSegs == 4

Segs == {"..", ".", "", "asdf"}

UserPaths == UNION {[1..n -> Segs] : n \in 1..MaxSegs}

\* c.root.Name(): the directory the cache was opened on, as it was given
Roots == {<<"", "test">>, <<"", "srv", "cache", "">>, <<"cache">>, <<"..", "x">>}

\* the text begins with a slash
Rooted(t) == Len(t) >= 2 /\ t[1] = ""

\* The loop of filepath.Clean over the segments of t, out being the segments
\* kept so far: an empty segment and "." are dropped, ".." takes back the
\* segment before it, is dropped at the root of a rooted path and is kept at
\* the start of a relative one.
RECURSIVE CleanLoop(_, _, _)
CleanLoop(t, out, rooted) ==
    IF t = <<>> THEN out
    ELSE LET seg == Head(t)
         IN  IF seg = "" \/ seg = "."
             THEN CleanLoop(Tail(t), out, rooted)
             ELSE IF seg = ".."
             THEN IF out # <<>> /\ out[Len(out)] # ".."
                  THEN CleanLoop(Tail(t), SubSeq(out, 1, Len(out) - 1), rooted)
                  ELSE IF rooted
                  THEN CleanLoop(Tail(t), out, rooted)
                  ELSE CleanLoop(Tail(t), Append(out, ".."), rooted)
             ELSE CleanLoop(Tail(t), Append(out, seg), rooted)

\* filepath.Clean(t): "/" and the segments kept for a rooted path, the
\* segments kept for a relative one, "." when nothing is kept
Clean(t) ==
    LET kept == CleanLoop(t, <<>>, Rooted(t))
    IN  IF Rooted(t) THEN (IF kept = <<>> THEN <<"", "">> ELSE <<"">> \o kept)
        ELSE IF kept = <<>> THEN <<".">> ELSE kept

\* filepath.Join(a, b): the non-empty elements joined by a slash, cleaned;
\* the empty text when both are empty
Join(a, b) ==
    IF a = <<"">> /\ b = <<"">> THEN <<"">>
    ELSE IF a = <<"">> THEN Clean(b)
    ELSE IF b = <<"">> THEN Clean(a)
    ELSE Clean(a \o b)

\* absoluteInRoot without the join with "/"
absoluteInRootUnsanitized(root, path) == Join(root, path)

\* Cache.absoluteInRoot(path), root being c.root.Name()
absoluteInRoot(root, path) ==
    LET sanitized == Join(<<"", "">>, path)
    IN  Join(root, sanitized)

InitPath ==
    /\ \E r \in Roots, p \in UserPaths :
          lastCall = [op |-> "request", root |-> r, path |-> p]
    /\ files = newFiles
    /\ touched = <<>>
    /\ disk = <<>>
    /\ tmp = {}
    /\ usedBytes = 0
    /\ usedAtOpen = 0
    /\ stores = 0
    /\ store = <<>>
    /\ now = 0
    /\ h = [pc |-> "idle"]

\* a call of absoluteInRoot on the path of the request
CallAbsoluteInRoot ==
    /\ lastCall.op = "request"
    /\ lastCall' = [op |-> "absoluteInRoot", root |-> lastCall.root,
                    path |-> lastCall.path,
                    out |-> absoluteInRoot(lastCall.root, lastCall.path)]
    /\ UNCHANGED <<files, touched, cacheVars, proxyVars>>

NextPath == CallAbsoluteInRoot

SpecPath == InitPath /\ [][NextPath]_vars

\* text t names the directory r or something below it (r cleaned)
Under(t, r) == Len(t) >= Len(r) /\ SubSeq(t, 1, Len(r)) = r

\* C18: for any user-supplied path, with any number of ".." segments, the
\* path absoluteInRoot resolves lies under the cache root, and below the root
\* it has no ".." segment left; root /test and path ../../asdf resolve to
\* /test/asdf.
C18_ResolvedUnderRoot ==
    lastCall.op = "absoluteInRoot" =>
        LET root == Clean(lastCall.root)
            out  == lastCall.out
        IN  /\ Under(out, root)
            /\ \A i \in (Len(root) + 1)..Len(out) : out[i] \notin {"..", ".", ""}
            /\ (lastCall.root = <<"", "test">> /\ lastCall.path = <<"..", "..", "asdf">>)
                  => out = <<"", "test", "asdf">>

\* the path ../../asdf resolved under /test
C18_Witness ==
    /\ lastCall.op = "absoluteInRoot"
    /\ lastCall.root = <<"", "test">>
    /\ lastCall.path = <<"..", "..", "asdf">>
    /\ lastCall.out = <<"", "test", "asdf">>

----------------------------------------------------------------------------
(* SpecOpen: NewCache on the directories it can be opened on.  The          *)
(* directory is kept in store, path -> [size, atime], until NewCache has    *)
(* walked it.                                                               *)

\* the access times of the files found are 0..MaxAtime ticks
MaxAtime == 2

\* the files a directory can hold, in the lexical order fs.WalkDir visits them
WalkOrder == <<"-/tmp/1", "-/tmp/2", "-/tmpx", "a", "b">>

\* strings.HasPrefix(path, tmpDir+"/")
InTmpDir(path) == path \in {"-/tmp/1", "-/tmp/2"}

\* the directories: every file is absent or present with a size and an
\* access time (a file under -/tmp was last accessed when it was written)
Directories ==
    LET names == {WalkOrder[i] : i \in 1..Len(WalkOrder)}
        infos == [size : Sizes, atime : 0..MaxAtime]
    IN  UNION {{d \in [ps -> infos] : \A q \in ps : InTmpDir(q) => d[q].atime = 0} :
                  ps \in SUBSET names}

\* the comparison NewCache sorts by:
\* int(a.lastAccessed.Sub(b.lastAccessed) / time.Second), truncated towards zero
cmpLastAccessed(a, b) ==
    IF a.lastAccessed >= b.lastAccessed
    THEN (a.lastAccessed - b.lastAccessed) \div TicksPerSecond
    ELSE 0 - ((b.lastAccessed - a.lastAccessed) \div TicksPerSecond)

\* the inner loop of the insertion sort slices.SortFunc runs on a short
\* slice: s[j] moves down while it compares less than s[j-1]
RECURSIVE SinkDown(_, _)
SinkDown(s, j) ==
    IF j > 1 /\ cmpLastAccessed(s[j], s[j - 1]) < 0
    THEN SinkDown([s EXCEPT ![j] = s[j - 1], ![j - 1] = s[j]], j - 1)
    ELSE s

\* slices.SortFunc(discoveredFiles, ...) from element i on
RECURSIVE SortFrom(_, _)
SortFrom(s, i) == IF i > Len(s) THEN s ELSE SortFrom(SinkDown(s, i), i + 1)

\* The fs.WalkDir callback of NewCache over the files order names, in that
\* order.  st is [dir, found, used, err]; rmErr says whether c.root.Remove
\* fails.  This variant has no branch for the files under -/tmp.
RECURSIVE WalkKeepingTemps(_, _, _)
WalkKeepingTemps(st, order, rmErr) ==
    IF order = <<>> \/ st.err # "nil" THEN st
    ELSE LET path == Head(order)
         IN  IF path \notin DOMAIN st.dir
             THEN WalkKeepingTemps(st, Tail(order), rmErr)
             ELSE WalkKeepingTemps(
                     [st EXCEPT !.found = Append(@,
                                    [file |-> [path |-> path, size |-> st.dir[path].size],
                                     lastAccessed |-> st.dir[path].atime]),
                                !.used = atomicAdd(@, st.dir[path].size)],
                     Tail(order), rmErr)

\* The fs.WalkDir callback of NewCache over the files order names, in that
\* order.  st is [dir, found, used, err]; rmErr says whether c.root.Remove
\* fails, which ends the walk.
RECURSIVE Walk(_, _, _)
Walk(st, order, rmErr) ==
    IF order = <<>> \/ st.err # "nil" THEN st
    ELSE LET path == Head(order)
         IN  IF path \notin DOMAIN st.dir
             THEN Walk(st, Tail(order), rmErr)
             ELSE IF InTmpDir(path)
             THEN IF rmErr
                  THEN Walk([st EXCEPT !.err = "walk"], Tail(order), rmErr)
                  ELSE Walk([st EXCEPT !.dir = Removed(@, path)], Tail(order), rmErr)
             ELSE Walk([st EXCEPT !.found = Append(@,
                                    [file |-> [path |-> path, size |-> st.dir[path].size],
                                     lastAccessed |-> st.dir[path].atime]),
                                  !.used = atomicAdd(@, st.dir[path].size)],
                       Tail(order), rmErr)

\* NewCache(path, maxSizeBytes) on directory dir: the walk, the sort and the
\* insert loop.  Returns the directory as it is left, the index, usedBytes
\* and the error.
NewCache(dir, rmErr) ==
    LET w      == Walk([dir |-> dir, found |-> <<>>, used |-> 0, err |-> "nil"],
                       WalkOrder, rmErr)
        sorted == SortFrom(w.found, 2)
        byAge  == [i \in 1..Len(sorted) |-> sorted[i].file]
    IN  [dir   |-> w.dir,
         files |-> IF w.err = "nil" THEN InsertAll(newFiles, byAge) ELSE newFiles,
         used  |-> w.used,
         err   |-> w.err]

InitOpen ==
    /\ store \in Directories
    /\ lastCall = [op |-> "none"]
    /\ files = newFiles
    /\ touched = <<>>
    /\ disk = <<>>
    /\ tmp = {}
    /\ usedBytes = 0
    /\ usedAtOpen = 0
    /\ stores = 0
    /\ now = 0
    /\ h = [pc |-> "idle"]

\* a call of NewCache on the directory; the cache exists when it returns nil
Open(rmErr) ==
    /\ lastCall.op = "none"
    /\ LET c == NewCache(store, rmErr)
       IN  /\ lastCall' = [op |-> "NewCache", dir |-> store, err |-> c.err]
           /\ store' = c.dir
           /\ files' = c.files
           /\ disk' = [q \in {r \in DOMAIN c.dir : ~InTmpDir(r)} |-> c.dir[q].size]
           /\ tmp' = {q \in DOMAIN c.dir : InTmpDir(q)}
           /\ usedBytes' = IF c.err = "nil" THEN c.used ELSE 0
           /\ usedAtOpen' = IF c.err = "nil" THEN c.used ELSE 0
    /\ UNCHANGED <<touched, stores, now, h>>

NextOpen == \E rmErr \in BOOLEAN : Open(rmErr)

SpecOpen == InitOpen /\ [][NextOpen]_vars

\* C19: after NewCache returned a cache for a directory, every file that was
\* under -/tmp/ is removed and none is in the index; every regular file
\* outside -/tmp/ is in the index exactly once with its on-disk size;
\* usedBytes is the sum of those sizes; on an empty directory the index is
\* empty and usedBytes is 0.
C19_Opened ==
    (lastCall.op = "NewCache" /\ lastCall.err = "nil") =>
        LET dir     == lastCall.dir
            regular == {q \in DOMAIN dir : ~InTmpDir(q)}
            listed  == Range(files, [q \in DOMAIN files.nodes |-> "nil"]).visited
        IN  /\ tmp = {}
            /\ \A q \in DOMAIN dir : InTmpDir(q) =>
                  q \notin DOMAIN store /\ q \notin DOMAIN files.nodes
            /\ DOMAIN store = regular
            /\ DOMAIN files.nodes = regular
            /\ Len(listed) = Cardinality(regular)
            /\ \A q \in regular :
                  /\ Cardinality({i \in 1..Len(listed) : listed[i].path = q}) = 1
                  /\ files.nodes[q].f = [path |-> q, size |-> dir[q].size]
                  /\ store[q] = dir[q]
            /\ usedBytes = SumSizes([q \in regular |-> dir[q].size])
            /\ dir = <<>> => files = newFiles /\ usedBytes = 0

\* a directory with a stale temporary file and two objects, opened
C19_Witness ==
    /\ lastCall.op = "NewCache"
    /\ lastCall.err = "nil"
    /\ "-/tmp/1" \in DOMAIN lastCall.dir
    /\ {"a", "b"} \subseteq DOMAIN lastCall.dir
    /\ lastCall.dir["a"].atime > lastCall.dir["b"].atime
    /\ Cardinality(DOMAIN files.nodes) >= 2
    /\ usedBytes > 0
    /\ tmp = {}

\* C22: after NewCache returned a cache, Range visits the files found in
\* ascending order of access time: of two files with different access times,
\* whatever the difference, the one accessed earlier is visited first.
C22_RangeByAtime ==
    (lastCall.op = "NewCache" /\ lastCall.err = "nil") =>
        LET dir    == lastCall.dir
            listed == Range(files, [q \in DOMAIN files.nodes |-> "nil"]).visited
        IN  \A f, g \in DOMAIN files.nodes :
                dir[f].atime < dir[g].atime => PosOf(listed, f) < PosOf(listed, g)

----------------------------------------------------------------------------
(* SpecChallenge: wwwauth.Parse on WWW-Authenticate challenges.  A text is  *)
(* the sequence of its characters; a token is [kind, value].                *)

\* the text written between the quotes of realm has at most MaxValueLen
\* characters
MaxValueLen == 2

BACKSLASH == "\\"

QUOTE == "\""

\* the line feed \n stands for in a Go string literal
LF == "LF"

\* the characters of [a-zA-Z0-9_*.-] the model uses
NameChars == {"B", "a", "c", "d", "e", "i", "l", "m", "n", "o", "p", "q",
              "r", "s", "t", "v", "_"}

\* the characters written between the quotes: two plain ones, the backslash
\* and the quote
ValueChars == {"q", "n", BACKSLASH, QUOTE}

\* the end of the longest run of characters of cs that starts at text[i]
RECURSIVE RunEnd(_, _, _)
RunEnd(text, i, cs) ==
    IF i <= Len(text) /\ text[i] \in cs THEN RunEnd(text, i + 1, cs) ELSE i

\* The pattern (\\"|[^"])*" matched from text[j] the way the regexp package
\* prefers its matches: the first alternative before the second, one more
\* repetition before none.  Returns the position after the closing quote, or
\* 0 when there is no match.
RECURSIVE ValueEnd(_, _)
ValueEnd(text, j) ==
    IF j > Len(text) THEN 0
    ELSE LET viaEscape == IF j < Len(text) /\ text[j] = BACKSLASH /\ text[j + 1] = QUOTE
                          THEN ValueEnd(text, j + 2) ELSE 0
             viaOther  == IF text[j] # QUOTE THEN ValueEnd(text, j + 1) ELSE 0
         IN  IF viaEscape # 0 THEN viaEscape
             ELSE IF viaOther # 0 THEN viaOther
             ELSE IF text[j] = QUOTE THEN j + 1
             ELSE 0

\* lex: the rules Whitespace, FieldSep, ValueSep, Name, Value tried in that
\* order at text[i]; Whitespace is elided.  Returns the tokens, or <<"error">>
\* as the last one when no rule matches.
RECURSIVE Lex(_, _)
Lex(text, i) ==
    IF i > Len(text) THEN <<>>
    ELSE LET c == text[i]
         IN  IF c = " " THEN Lex(text, RunEnd(text, i, {" "}))
             ELSE IF c = "," THEN <<[kind |-> "FieldSep", value |-> <<c>>]>> \o Lex(text, i + 1)
             ELSE IF c = "=" THEN <<[kind |-> "ValueSep", value |-> <<c>>]>> \o Lex(text, i + 1)
             ELSE IF c \in NameChars
             THEN LET e == RunEnd(text, i, NameChars)
                  IN  <<[kind |-> "Name", value |-> SubSeq(text, i, e - 1)]>> \o Lex(text, e)
             ELSE IF c = QUOTE /\ ValueEnd(text, i + 1) # 0
             THEN LET e == ValueEnd(text, i + 1)
                  IN  <<[kind |-> "Value", value |-> SubSeq(text, i, e - 1)]>> \o Lex(text, e)
             ELSE <<[kind |-> "error", value |-> <<c>>]>>

\* strconv.UnquoteChar with quote '"', applied until s is used up: a bare
\* quote, a backslash at the end and a backslash before a character that
\* begins no escape are syntax errors
RECURSIVE UnquoteChars(_)
UnquoteChars(s) ==
    IF s = <<>> THEN [ok |-> TRUE, s |-> <<>>]
    ELSE LET c == Head(s)
         IN  IF c = QUOTE THEN [ok |-> FALSE, s |-> <<>>]
             ELSE IF c # BACKSLASH
             THEN LET r == UnquoteChars(Tail(s))
                  IN  [ok |-> r.ok, s |-> IF r.ok THEN <<c>> \o r.s ELSE <<>>]
             ELSE IF Len(s) < 2 THEN [ok |-> FALSE, s |-> <<>>]
             ELSE LET d == s[2]
                      v == IF d = "n" THEN LF ELSE d
                      r == UnquoteChars(SubSeq(s, 3, Len(s)))
                  IN  IF d \notin {"n", BACKSLASH, QUOTE}
                      THEN [ok |-> FALSE, s |-> <<>>]
                      ELSE [ok |-> r.ok, s |-> IF r.ok THEN <<v>> \o r.s ELSE <<>>]

\* unquote that keeps the token as it was written
unquoteKeepsText(value) == [ok |-> TRUE, s |-> value]

\* participle.Unquote("Value") on a Value token: the quotes are cut off and
\* the escapes replaced
unquote(value) == UnquoteChars(SubSeq(value, 2, Len(value) - 1))

\* the grammar (',' @@)* from token i on: the params taken, and the position
\* of the first token that is not part of them
RECURSIVE MoreParams(_, _)
MoreParams(toks, i) ==
    IF /\ i + 3 <= Len(toks)
       /\ toks[i].kind = "FieldSep"
       /\ toks[i + 1].kind = "Name"
       /\ toks[i + 2].kind = "ValueSep"
       /\ toks[i + 3].kind = "Value"
    THEN LET r == MoreParams(toks, i + 4)
         IN  [params |-> <<[Field |-> toks[i + 1].value, Value |-> toks[i + 3].value]>>
                            \o r.params,
              next   |-> r.next]
    ELSE [params |-> <<>>, next |-> i]

\* parser.ParseString: @Name, then @@ (',' @@)*, then the end of the input;
\* the Value tokens are unquoted as they are read
ParseString(text) ==
    LET toks == Lex(text, 1)
        okTokens == \A i \in 1..Len(toks) :
                        /\ toks[i].kind # "error"
                        /\ toks[i].kind = "Value" => unquote(toks[i].value).ok
    IN  IF /\ okTokens
           /\ Len(toks) >= 4
           /\ toks[1].kind = "Name"
           /\ toks[2].kind = "Name"
           /\ toks[3].kind = "ValueSep"
           /\ toks[4].kind = "Value"
           /\ MoreParams(toks, 5).next = Len(toks) + 1
        THEN LET ps == <<[Field |-> toks[2].value, Value |-> toks[4].value]>>
                          \o MoreParams(toks, 5).params
             IN  [err |-> "nil", Scheme |-> toks[1].value,
                  Params |-> [i \in 1..Len(ps) |->
                                 [Field |-> ps[i].Field, Value |-> unquote(ps[i].Value).s]]]
        ELSE [err |-> "parse", Scheme |-> <<>>, Params |-> <<>>]

realm == <<"r", "e", "a", "l", "m">>

service == <<"s", "e", "r", "v", "i", "c", "e">>

scope == <<"s", "c", "o", "p", "e">>

error == <<"e", "r", "r", "o", "r">>

error_description == error \o <<"_", "d", "e", "s", "c", "r", "i", "p", "t", "i", "o", "n">>

error_uri == error \o <<"_", "u", "r", "i">>

\* WWWAuthenticate{}
ZeroWWWAuthenticate == [Realm |-> <<>>, Service |-> <<>>, Scope |-> <<>>]

\* the loop of Parse over parsed.Params from the first of ps on; st is
\* [ret, code, err]
RECURSIVE Fields(_, _)
Fields(ps, st) ==
    IF ps = <<>> \/ st.err # "nil" THEN st
    ELSE LET p == Head(ps)
         IN  IF p.Field = realm THEN Fields(Tail(ps), [st EXCEPT !.ret.Realm = p.Value])
             ELSE IF p.Field = service THEN Fields(Tail(ps), [st EXCEPT !.ret.Service = p.Value])
             ELSE IF p.Field = scope THEN Fields(Tail(ps), [st EXCEPT !.ret.Scope = p.Value])
             ELSE IF p.Field = error THEN Fields(Tail(ps), [st EXCEPT !.code = p.Value])
             ELSE IF p.Field \in {error_description, error_uri} THEN Fields(Tail(ps), st)
             ELSE [st EXCEPT !.err = "unknown field"]

\* wwwauth.Parse(s): the value and the error it returns
Parse(text) ==
    LET parsed == ParseString(text)
        st     == Fields(parsed.Params,
                         [ret |-> ZeroWWWAuthenticate, code |-> <<>>, err |-> "nil"])
    IN  IF parsed.err # "nil" THEN [ret |-> ZeroWWWAuthenticate, err |-> "parse"]
        ELSE IF st.err # "nil" THEN [ret |-> ZeroWWWAuthenticate, err |-> st.err]
        ELSE IF st.code # <<>> THEN [ret |-> ZeroWWWAuthenticate, err |-> "challenge"]
        ELSE [ret |-> st.ret, err |-> "nil"]

\* the texts written between the quotes of realm, and those of the other
\* parameters
Written1 == UNION {[1..n -> ValueChars] : n \in 0..MaxValueLen}

Written2 == {<<>>, <<"q">>, <<BACKSLASH, QUOTE>>}

\* the error parameters a challenge carries besides realm, service and scope
ErrorParams ==
    {<<>>,
     <<[Field |-> error, Written |-> <<>>]>>,
     <<[Field |-> error_description, Written |-> <<"q">>]>>,
     <<[Field |-> error, Written |-> <<"q">>]>>,
     <<[Field |-> <<"q">>, Written |-> <<"q">>]>>}

\* the orders of three parameters
Orders == {o \in [1..3 -> 1..3] : {o[i] : i \in 1..3} = 1..3}

\* the text of param k="v"
ParamText(p) == p.Field \o <<"=", QUOTE>> \o p.Written \o <<QUOTE>>

\* the text <scheme> k="v"[,k="v"]* of the params ps
RECURSIVE ParamsText(_)
ParamsText(ps) ==
    IF Len(ps) = 1 THEN ParamText(ps[1])
    ELSE ParamText(ps[1]) \o <<",">> \o ParamsText(Tail(ps))

ChallengeText(ps) == <<"B", "e", "a", "r", "e", "r", " ">> \o ParamsText(ps)

InitChallenge ==
    /\ \E R \in Written1, S \in Written2, C \in Written2, o \in Orders,
          e \in ErrorParams, errFirst \in BOOLEAN :
          LET three == <<[Field |-> realm, Written |-> R],
                         [Field |-> service, Written |-> S],
                         [Field |-> scope, Written |-> C]>>
              inOrder == [i \in 1..3 |-> three[o[i]]]
              ps == IF errFirst THEN e \o inOrder ELSE inOrder \o e
          IN  lastCall = [op |-> "challenge", params |-> ps, text |-> ChallengeText(ps),
                          R |-> R, S |-> S, C |-> C, e |-> e]
    /\ files = newFiles
    /\ touched = <<>>
    /\ disk = <<>>
    /\ tmp = {}
    /\ usedBytes = 0
    /\ usedAtOpen = 0
    /\ stores = 0
    /\ store = <<>>
    /\ now = 0
    /\ h = [pc |-> "idle"]

\* a call of wwwauth.Parse on the challenge
CallParse ==
    /\ lastCall.op = "challenge"
    /\ lastCall' = [lastCall EXCEPT !.op = "Parse"] @@ [res |-> Parse(lastCall.text)]
    /\ UNCHANGED <<files, touched, cacheVars, proxyVars>>

NextChallenge == CallParse

SpecChallenge == InitChallenge /\ [][NextChallenge]_vars

\* the Value tokens of the text are the texts of its params, quotes included:
\* the challenge has the form <scheme> k="v"[,k="v"]*
OfTheForm(call) ==
    LET toks == Lex(call.text, 1)
        vals == {i \in 1..Len(toks) : toks[i].kind = "Value"}
    IN  /\ \A i \in 1..Len(toks) : toks[i].kind # "error"
        /\ Cardinality(vals) = Len(call.params)
        /\ \A k \in 1..Len(call.params) :
              toks[4 * k].kind = "Value"
              /\ toks[4 * k].value = <<QUOTE>> \o call.params[k].Written \o <<QUOTE>>

\* the params besides realm, service and scope are error parameters, and
\* error is empty when it is there
NoErrorCode(call) ==
    \A i \in 1..Len(call.e) :
        /\ call.e[i].Field \in {error, error_description, error_uri}
        /\ call.e[i].Field = error => call.e[i].Written = <<>>

\* a text in which every backslash is followed by a quote and every quote
\* follows such a backslash
RECURSIVE OnlyQuoteEscapes(_)
OnlyQuoteEscapes(w) ==
    IF w = <<>> THEN TRUE
    ELSE IF Head(w) = BACKSLASH
    THEN Len(w) >= 2 /\ w[2] = QUOTE /\ OnlyQuoteEscapes(SubSeq(w, 3, Len(w)))
    ELSE Head(w) # QUOTE /\ OnlyQuoteEscapes(Tail(w))

\* w with every \" replaced by "
RECURSIVE QuotesUnescaped(_)
QuotesUnescaped(w) ==
    IF w = <<>> THEN <<>>
    ELSE IF Head(w) = BACKSLASH /\ Len(w) >= 2
    THEN <<w[2]>> \o QuotesUnescaped(SubSeq(w, 3, Len(w)))
    ELSE <<Head(w)>> \o QuotesUnescaped(Tail(w))

\* C21 as stated: Parse of a challenge <scheme> k="v"[,k="v"]* whose
\* parameters are realm=R, service=S and scope=C, in any order and with no
\* non-empty error parameter, succeeds with Realm, Service and Scope being
\* R, S and C as they are written in the challenge.
C21_ParseReturnsWritten ==
    (lastCall.op = "Parse" /\ OfTheForm(lastCall) /\ NoErrorCode(lastCall)) =>
        /\ lastCall.res.err = "nil"
        /\ lastCall.res.ret = [Realm |-> lastCall.R, Service |-> lastCall.S,
                               Scope |-> lastCall.C]

\* C21, amended: when R, S and C are written with no backslash other than
\* the one of a \" escape, Parse succeeds with Realm, Service and Scope being
\* R, S and C with every \" replaced by the quote it stands for.
C21_ParseReturnsUnescaped ==
    (/\ lastCall.op = "Parse"
     /\ NoErrorCode(lastCall)
     /\ OnlyQuoteEscapes(lastCall.R)
     /\ OnlyQuoteEscapes(lastCall.S)
     /\ OnlyQuoteEscapes(lastCall.C)) =>
        /\ lastCall.res.err = "nil"
        /\ lastCall.res.ret = [Realm |-> QuotesUnescaped(lastCall.R),
                               Service |-> QuotesUnescaped(lastCall.S),
                               Scope |-> QuotesUnescaped(lastCall.C)]

\* scope, realm, service in that order, realm written as an escaped quote,
\* and an empty error parameter: parsed
C21_Witness ==
    /\ lastCall.op = "Parse"
    /\ lastCall.res.err = "nil"
    /\ lastCall.params[1].Field = scope
    /\ lastCall.params[2].Field = realm
    /\ Len(lastCall.params) = 4
    /\ lastCall.params[4].Field = error
    /\ lastCall.R = <<BACKSLASH, QUOTE>>
    /\ lastCall.res.ret.Realm = <<QUOTE>>
    /\ lastCall.res.ret.Service = <<"q">>

====
